---- MODULE Spec2Model ----
(***************************************************************************)
(* State-machine model of the mlxui frontend's store/api layer:            *)
(*   - generationStore.ts  (useGenerationStore)                            *)
(*   - api/generation.ts   (GenerationStreamManager)                       *)
(*   - modelStore.ts       (useModelStore)                                 *)
(*   - appStore.ts         (useAppStore), api/health.ts                    *)
(* JavaScript runs every handler to completion, so each handler (or the    *)
(* part of an async function between two awaits) is one atomic action.     *)
(***************************************************************************)
EXTENDS Integers, Sequences, FiniteSets, TLC

(* ------------------------------ bounds --------------------------------- *)
\* managers (sessions) created by accepted startGenerationStream calls
MaxSessions == 2
\* messages delivered on the generation sockets, all sessions together
MaxChunks == 2
\* backend requests of one kind awaiting their response
MaxPending == 1
\* sessions, and messages delivered, where the stores run together (Spec)
MaxAppSessions == 1
MaxAppChunks == 1
\* sessions, and messages delivered, where sessions are stopped and restarted (SpecRestart)
MaxRestartSessions == 3
MaxRestartChunks == 2
\* backend requests of the model store awaiting their response (SpecModels)
MaxModelPending == 2
MaxCachePending == 2
MaxSamples == 130
MaxPerfManagers == 2
MaxPerfSamples == 1

(* ------------------------- program constants --------------------------- *)
\* setTimeout(..., 10000): the connect window, in time units of 1000 ms
ConnectTimeoutUnits == 10
\* PerformanceStreamManager: attempts, and delays in time units of 1000 ms
maxReconnectAttempts == 5
initialReconnectDelay == 3
maxReconnectDelay == 30
\* performanceStore
maxHistory == 120

NULL == "null"
UNDEFINED == "undefined"

\* WebSocket.readyState; NOSOCKET: `new WebSocket` threw, no socket exists
CONNECTING == "CONNECTING"
OPEN == "OPEN"
CLOSING == "CLOSING"
CLOSED == "CLOSED"
NOSOCKET == "NOSOCKET"

\* close codes a close event can carry: normal closure, abnormal closure (the
\* connection failed, no close frame), and a code the server closes with on an error
NormalClosure == "1000"
AbnormalClosure == "1006"
InternalError == "1011"

(* ------------------------------ messages ------------------------------- *)
\* a message is a sequence of string pieces, so that template strings concatenate;
\* the empty sequence is null (no message)
NoError == << >>
ErrBusy == <<"Another generation is already in progress.">>
ErrNoModel == <<"No model is loaded. Please select and load a model first.">>
ErrOffline == <<"Backend is offline. Cannot start generation.">>
ErrEstablish == <<"Failed to establish WebSocket: ", "ctor">>
ErrTimedOut == <<"WebSocket connection timed out.">>
ErrSend == <<"Failed to send request: ", "send">>
ErrParse == <<"Failed to parse server response: ", "json">>
\* `... Code: ${event.code}, Reason: ${event.reason || 'N/A'}`; "" is falsy
ErrUnexpectedClose(code, reason) ==
  <<"WebSocket closed unexpectedly. Code: ", code, ", Reason: ",
    IF reason # "" THEN reason ELSE "N/A">>
HealthOfflineMsg == <<"Backend is offline or not responding to health checks.">>
ErrListThrown == <<"HTTP error (list)">>
\* `Failed to load model '${identifier}'`
ErrLoadDefault(identifier) == <<"Failed to load model '", identifier, "'">>
ErrLoadThrown == <<"HTTP error (load)">>
\* `Failed to unload model '${modelNameToUnload}'`
ErrUnloadDefault(modelNameToUnload) ==
  <<"Failed to unload model '", modelNameToUnload, "'">>
ErrUnloadThrown == <<"HTTP error (unload)">>
ErrStatusThrown == <<"Failed to fetch current model info">>
BackendMessage == <<"backend says no">>

\* `Generation Error: ${error.message}` and `Stream Error: ${error.message}`
GenerationError(msg) == <<"Generation Error: ">> \o msg
StreamError(msg) == <<"Stream Error: ">> \o msg

(* ------------------------------- inputs -------------------------------- *)
\* chunk.text: "", "He", "llo" as character sequences ("" is falsy)
Texts == { << >>, <<"H", "e">>, <<"l", "l", "o">> }
\* chunk.error: absent/null, or the backend's message
ChunkErrors == { NoError, <<"backend error">> }
\* the messages the backend can send: a JSON TokenChunk, or text JSON.parse rejects
TokenChunks ==
  [json : {TRUE}, text : Texts, is_finished : BOOLEAN, error : {NoError}] \cup
  [json : {TRUE}, text : {<<"l", "l", "o">>}, is_finished : BOOLEAN, error : ChunkErrors \ {NoError}]
MalformedFrame == [json |-> FALSE]
Frames == TokenChunks \cup {MalformedFrame}
\* the messages the specifications deliver
Chunk(text, is_finished) ==
  [json |-> TRUE, text |-> text, is_finished |-> is_finished, error |-> NoError]
ErrorChunk ==
  [json |-> TRUE, text |-> <<"l", "l", "o">>, is_finished |-> FALSE, error |-> <<"backend error">>]
StreamFrames ==
  { Chunk(<<"H", "e">>, FALSE), Chunk(<<"l", "l", "o">>, FALSE), Chunk(<<"l", "l", "o">>, TRUE),
    Chunk(<< >>, TRUE), ErrorChunk, MalformedFrame }

\* payload: { prompt } or { messages }
PromptPayload == [prompt |-> "Say hi"]
MessagesPayload == [messages |-> <<[role |-> "user", content |-> "hi"]>>]
Payloads == { PromptPayload, MessagesPayload }

ReasonUser == "User requested stop"
ReasonModelChanged == "Model changed"
ReasonNewChat == "New chat started"
ReasonBackendError == "Error received from backend"
ReasonParseError == "Message parsing error"
\* ws.close() without arguments
NoCode == "none"
NoReason == ""

\* close events (event.code, event.reason); a failed connection carries no reason, a
\* close frame of the server carries the reason the server gave
CloseEvent(code, reason) == [code |-> code, reason |-> reason]
NormalClose == CloseEvent(NormalClosure, NoReason)
AbnormalClose == CloseEvent(AbnormalClosure, NoReason)
ServerErrorClose == CloseEvent(InternalError, "Internal error")
CloseEvents == {NormalClose, AbnormalClose}
AllCloseEvents == {NormalClose, AbnormalClose, ServerErrorClose}

\* ModelInfo descriptors (id, name, adapter_path, is_loaded); the option type: << >> is null
ModelA == [id |-> "local/model-a", name |-> "Model A", adapter_path |-> NULL, is_loaded |-> TRUE]
ModelALora ==
  [id |-> "local/model-a", name |-> "Model A", adapter_path |-> "lora", is_loaded |-> TRUE]
ModelB == [id |-> "local/model-b", name |-> "Model B", adapter_path |-> NULL, is_loaded |-> TRUE]
\* a descriptor the backend reports as not loaded
ModelANotLoaded ==
  [id |-> "local/model-a", name |-> "Model A", adapter_path |-> NULL, is_loaded |-> FALSE]
\* the identifier handleLoadModel hands to loadModel
LoadIdentifier == "local/model-b"
ModelInfos == {ModelA, ModelALora, ModelB}
None == << >>
Some(x) == << x >>

\* the outstanding requests without the one at position i, which settles
RemoveAt(seq, i) == SubSeq(seq, 1, i - 1) \o SubSeq(seq, i + 1, Len(seq))

\* streamManager = null
NoManager == 0

VARIABLES
  \* generationStore.ts
  generationParams,
  \* which object generationParams.value.kv_cache_options references
  kvCacheOptionsObject,
  isGenerating, cacheOperationStatus, currentOutputStream, lastChunk, streamManager,
  \* the GenerationStreamManager objects, their sockets and their callers' callbacks
  managers,
  \* the message the handler of the last step gave its caller's onStreamError before it
  \* returned, when that handler was a startGenerationStream call that rejected;
  \* << >> otherwise
  startError,
  \* appStore.ts
  backendStatus, lastError,
  \* modelStore.ts
  currentModel, isModelLoading, availableModels,
  \* backend requests awaiting their response, per kind
  pending,
  \* performanceStore.ts; performanceStreamManager is its `streamManager`
  currentMetrics, historicalMetrics, isStreaming, performanceStreamManager,
  \* the PerformanceStreamManager objects and their sockets
  performanceManagers

perfVars == << currentMetrics, historicalMetrics, isStreaming, performanceStreamManager,
               performanceManagers >>

vars == << generationParams, kvCacheOptionsObject, cacheOperationStatus, isGenerating, currentOutputStream, lastChunk, streamManager,
           managers, startError, backendStatus, lastError,
           currentModel, isModelLoading, availableModels, pending, perfVars >>

(* ------------------------- parameter document -------------------------- *)
\* objects are functions from their own keys to values
Merge(a, b) == [k \in DOMAIN a \cup DOMAIN b |-> IF k \in DOMAIN b THEN b[k] ELSE a[k]]
Without(a, keys) == [k \in DOMAIN a \ keys |-> a[k]]

\* a numeric option is None while it is undefined and Some(n) once it holds the number n
DEFAULT_KV_CACHE_OPTIONS ==
  [bits |-> None, group_size |-> Some(64), quantized_kv_start |-> Some(5000), max_size |-> None]

\* {} is the empty function
EmptyObject == [k \in {} |-> NULL]

\* object identities: the nested object of the exported DEFAULT_GENERATION_PARAMS, and
\* an object literal created by updateGenerationParams
DefaultKvCacheOptionsObject == "DEFAULT_GENERATION_PARAMS.kv_cache_options"
OwnKvCacheOptionsObject == "created by updateGenerationParams"

\* the object a shallow copy { ...DEFAULT_GENERATION_PARAMS } holds under kv_cache_options
ShallowCopyKvCacheOptionsObject == DefaultKvCacheOptionsObject

DEFAULT_GENERATION_PARAMS ==
  [max_tokens |-> 4096, top_k |-> 0, num_draft_tokens |-> 3,
   kv_cache_options |-> DEFAULT_KV_CACHE_OPTIONS,
   logit_bias |-> EmptyObject]

\* updateGenerationParams that spreads the whole update over the document
UpdatedParams_ReplacesKvCacheOptions(gp, params) == Merge(gp, params)

\* updateGenerationParams that spreads a logit_bias update over the stored map
UpdatedParams_MergesLogitBias(gp, params) ==
  LET withKv ==
        IF "kv_cache_options" \in DOMAIN params
        THEN Merge(gp, [kv_cache_options |->
                          Merge(IF "kv_cache_options" \in DOMAIN gp THEN gp.kv_cache_options
                                ELSE DEFAULT_KV_CACHE_OPTIONS,
                                params.kv_cache_options)])
        ELSE gp
      withBias ==
        IF "logit_bias" \in DOMAIN params
        THEN Merge(withKv, [logit_bias |-> Merge(gp.logit_bias, params.logit_bias)])
        ELSE withKv
  IN  Merge(withBias, Without(params, {"kv_cache_options", "logit_bias"}))

\* the document updateGenerationParams(params) leaves in the store
UpdatedParams(gp, params) ==
  LET withKv ==
        IF "kv_cache_options" \in DOMAIN params
        THEN Merge(gp, [kv_cache_options |->
                          Merge(IF "kv_cache_options" \in DOMAIN gp THEN gp.kv_cache_options
                                ELSE DEFAULT_KV_CACHE_OPTIONS,
                                params.kv_cache_options)])
        ELSE gp
  IN  Merge(withKv, Without(params, {"kv_cache_options"}))

\* the request built by startGenerationStream
\* an absent key stands for an undefined or null value
\* BuildRequest that spreads the stored parameters over the payload without deleting
\* their prompt and messages
BuildRequest_ParamsOverPayload(payload, params) ==
  LET request == Merge(payload, params)
  IN  IF "kv_cache_options" \notin DOMAIN request
      THEN Merge(request, [kv_cache_options |-> EmptyObject])
      ELSE request

BuildRequest(payload, params) ==
  LET baseParams == Without(params, {"prompt", "messages"})
      request == Merge(payload, baseParams)
  IN  IF "kv_cache_options" \notin DOMAIN request
      THEN Merge(request, [kv_cache_options |-> EmptyObject])
      ELSE request

(* ----------------------- GenerationStreamManager ----------------------- *)
\* no connect timer is pending (never set, cleared, or already run)
NoTimer == -1

\* a manager right after `new GenerationStreamManager(...)` and startStream(request)
\* ws: TRUE iff this.ws references the socket; connectionTimeout: the time units
\* elapsed on the pending connect timer, NoTimer when none is pending;
\* established: the socket's opening handshake has completed
NewManager(request, ctorThrows) ==
  [ ws |-> ~ctorThrows,
    request |-> request,
    receivedFinalChunk |-> FALSE,
    explicitlyClosed |-> FALSE,
    connectionTimeout |-> IF ctorThrows THEN NoTimer ELSE 0,
    \* the socket
    readyState |-> IF ctorThrows THEN NOSOCKET ELSE CONNECTING,
    established |-> FALSE,
    sent |-> << >>,
    closeCalls |-> << >>,
    closeEventFired |-> FALSE,
    received |-> << >>,
    \* the callbacks the caller passed to startGenerationStream
    onTokenUpdate |-> << >>,
    onStreamComplete |-> 0,
    onStreamError |-> << >> ]

\* ClearTimer that leaves the timer pending
ClearTimer_Pending(m) == m

\* clearTimeout(this.connectionTimeout)
ClearTimer(m) == [m EXCEPT !.connectionTimeout = NoTimer]

\* WebSocket.close(code, reason) called by the client
SocketClose(m, code, reason) ==
  IF m.readyState \in {CONNECTING, OPEN}
  THEN [m EXCEPT !.readyState = CLOSING, !.closeCalls = Append(@, <<code, reason>>)]
  ELSE m

\* GenerationStreamManager.closeStream(reason)
closeStream(m, reason) ==
  LET m1 == ClearTimer([m EXCEPT !.explicitlyClosed = TRUE])
  IN  IF m1.ws
      THEN [ (IF m1.readyState \in {OPEN, CONNECTING}
              THEN SocketClose(m1, NormalClosure, reason) ELSE m1)
             EXCEPT !.ws = FALSE ]
      ELSE m1

(* --------------------------- generationStore --------------------------- *)
\* the state a generation handler reads and writes, as one value
Store ==
  [ isGenerating |-> isGenerating, currentOutputStream |-> currentOutputStream,
    lastChunk |-> lastChunk, streamManager |-> streamManager,
    lastError |-> lastError, managers |-> managers ]

Commit(g) ==
  /\ isGenerating' = g.isGenerating
  /\ currentOutputStream' = g.currentOutputStream
  /\ lastChunk' = g.lastChunk
  /\ streamManager' = g.streamManager
  /\ lastError' = g.lastError
  /\ managers' = g.managers

\* the (chunk) => {...} callback startGenerationStream gives manager s
onToken(g, s, chunk) ==
  [g EXCEPT !.currentOutputStream = IF chunk.text # << >> THEN @ \o chunk.text ELSE @,
            !.lastChunk = Some(chunk),
            !.managers[s].onTokenUpdate = Append(@, chunk.text)]

\* the (error) => {...} callback
onError(g, s, msg) ==
  [g EXCEPT !.isGenerating = FALSE,
            !.lastError = GenerationError(msg),
            !.managers[s].onStreamError = Append(@, StreamError(msg)),
            !.streamManager = NoManager]

\* the completion callback without its last statement
onComplete_KeepsReference(g, s) ==
  [g EXCEPT !.isGenerating = FALSE,
            !.managers[s].onStreamComplete = @ + 1]

\* the () => {...} callback
onComplete(g, s) ==
  [g EXCEPT !.isGenerating = FALSE,
            !.managers[s].onStreamComplete = @ + 1,
            !.streamManager = NoManager]

\* stopStream that keeps the reference to the manager it closed
stopStream_KeepsReference(g, reason) ==
  LET g1 == IF g.streamManager # NoManager
            THEN [g EXCEPT !.managers[g.streamManager] = closeStream(@, reason)]
            ELSE g
  IN  IF g1.isGenerating THEN [g1 EXCEPT !.isGenerating = FALSE] ELSE g1

\* stopGenerationStream(reason), as a function of the store state
stopStream(g, reason) ==
  LET g1 == IF g.streamManager # NoManager
            THEN [g EXCEPT !.managers[g.streamManager] = closeStream(@, reason),
                           !.streamManager = NoManager]
            ELSE g
  IN  IF g1.isGenerating THEN [g1 EXCEPT !.isGenerating = FALSE] ELSE g1

\* newModel?.id, newModel?.adapter_path
IdOf(model) == IF model = None THEN UNDEFINED ELSE model[1].id
AdapterOf(model) == IF model = None THEN UNDEFINED ELSE model[1].adapter_path

\* watchCurrentModel that takes every new descriptor object for a new model
watchCurrentModel_OnAnyChange(g, newModel, oldModel) ==
  IF newModel # oldModel
  THEN [ (IF g.isGenerating THEN stopStream(g, ReasonModelChanged) ELSE g)
         EXCEPT !.currentOutputStream = << >>, !.lastChunk = None ]
  ELSE g

\* watchCurrentModel without its call of stopGenerationStream
watchCurrentModel_NoStop(g, newModel, oldModel) ==
  IF IdOf(newModel) # IdOf(oldModel) \/ AdapterOf(newModel) # AdapterOf(oldModel)
  THEN [g EXCEPT !.currentOutputStream = << >>, !.lastChunk = None]
  ELSE g

\* watch(() => modelStore.currentModel, (newModel, oldModel) => {...})
watchCurrentModel(g, newModel, oldModel) ==
  IF IdOf(newModel) # IdOf(oldModel) \/ AdapterOf(newModel) # AdapterOf(oldModel)
  THEN [ (IF g.isGenerating THEN stopStream(g, ReasonModelChanged) ELSE g)
         EXCEPT !.currentOutputStream = << >>, !.lastChunk = None ]
  ELSE g

(* ------------------------------ Init ----------------------------------- *)
\* unload: the modelNameToUnload of each unload request awaiting its response;
\* cache: the cache requests awaiting their response, each [operation, argument];
\* backendModel, statusAnswers, loadAnswers: the model the backend holds and the
\* answers it has produced that are still on their way
NoPending ==
  [load |-> 0, unload |-> << >>, status |-> 0, list |-> 0, health |-> 0, cache |-> << >>,
   stats |-> 0, backendModel |-> None, statusAnswers |-> << >>, loadAnswers |-> << >>]

Init ==
  /\ generationParams = DEFAULT_GENERATION_PARAMS
  /\ kvCacheOptionsObject = ShallowCopyKvCacheOptionsObject
  /\ cacheOperationStatus = [message |-> << >>, type |-> "", isLoading |-> FALSE, cache_size |-> None]
  /\ currentMetrics = None
  /\ historicalMetrics = << >>
  /\ isStreaming = FALSE
  /\ performanceStreamManager = NoManager
  /\ performanceManagers = << >>
  /\ isGenerating = FALSE
  /\ currentOutputStream = << >>
  /\ lastChunk = None
  /\ streamManager = NoManager
  /\ managers = << >>
  /\ startError = << >>
  /\ backendStatus = "checking"
  /\ lastError = NoError
  /\ currentModel = None
  /\ isModelLoading = FALSE
  /\ availableModels = << >>
  /\ pending = NoPending

Sessions == 1 .. Len(managers)

(* --------------------- generationStore: operations --------------------- *)
\* StartRejection without its first check (isGenerating.value)
StartRejection_NotBusy ==
  IF currentModel = None THEN ErrNoModel
  ELSE IF backendStatus # "online" THEN ErrOffline
  ELSE NoError

\* StartRejection without its last check (appStore.backendStatus)
StartRejection_NoHealth ==
  IF isGenerating THEN ErrBusy
  ELSE IF currentModel = None THEN ErrNoModel
  ELSE NoError

\* the checks startGenerationStream makes before it accepts a call: the message it
\* gives onStreamError, NoError when it goes on
StartRejection ==
  IF isGenerating THEN ErrBusy
  ELSE IF currentModel = None THEN ErrNoModel
  ELSE IF backendStatus # "online" THEN ErrOffline
  ELSE NoError

\* startGenerationStream(payload, onTokenUpdate, onStreamComplete, onStreamError);
\* ctorThrows: whether `new WebSocket(wsUrl)` throws
startGenerationStream(payload, ctorThrows) ==
  IF StartRejection # NoError THEN
    /\ startError' = StartRejection
    /\ UNCHANGED << perfVars, generationParams, kvCacheOptionsObject, cacheOperationStatus, availableModels, isGenerating, currentOutputStream, lastChunk,
                    streamManager, managers, backendStatus, lastError,
                    currentModel, isModelLoading, pending >>
  ELSE
    /\ LET s == Len(managers) + 1
           request == BuildRequest(payload, generationParams)
           g1 == [ isGenerating |-> TRUE, currentOutputStream |-> << >>,
                   lastChunk |-> None, streamManager |-> s, lastError |-> NoError,
                   managers |-> Append(managers, NewManager(request, ctorThrows)) ]
       IN  Commit(IF ctorThrows THEN onError(g1, s, ErrEstablish) ELSE g1)
    /\ startError' = NoError
    /\ UNCHANGED << perfVars, generationParams, kvCacheOptionsObject, cacheOperationStatus, availableModels, backendStatus, currentModel, isModelLoading, pending >>

\* stopGenerationStream(reason)
stopGenerationStream(reason) ==
  /\ Commit(stopStream(Store, reason))
  /\ startError' = NoError
  /\ UNCHANGED << perfVars, generationParams, kvCacheOptionsObject, cacheOperationStatus, availableModels, backendStatus,
                  currentModel, isModelLoading, pending >>

\* ChatMode.handleNewChat: stops a running generation, clears the global error and
\* writes the store's accumulated output and last chunk itself
handleNewChat ==
  /\ LET g1 == IF isGenerating THEN stopStream(Store, ReasonNewChat) ELSE Store
     IN  Commit([g1 EXCEPT !.lastError = NoError,
                           !.currentOutputStream = << >>,
                           !.lastChunk = None])
  /\ startError' = NoError
  /\ UNCHANGED << perfVars, generationParams, kvCacheOptionsObject, cacheOperationStatus,
                  availableModels, backendStatus, currentModel, isModelLoading, pending >>

(* ------------------ GenerationStreamManager: handlers ------------------ *)
\* this.ws.onopen; sendThrows: whether this.ws.send(...) throws
ws_onopen(s, sendThrows) ==
  /\ managers[s].readyState = CONNECTING
  /\ LET m1 == ClearTimer([managers[s] EXCEPT !.readyState = OPEN, !.established = TRUE])
         g1 == [Store EXCEPT !.managers[s] = m1]
     IN  IF m1.ws
         THEN IF sendThrows
              THEN LET g2 == onError(g1, s, ErrSend)
                   IN  Commit([g2 EXCEPT !.managers[s] = SocketClose(@, NoCode, NoReason)])
              ELSE Commit([g1 EXCEPT !.managers[s].sent = Append(@, m1.request)])
         ELSE Commit(g1)
  /\ startError' = NoError
  /\ UNCHANGED << perfVars, generationParams, kvCacheOptionsObject, cacheOperationStatus, availableModels, backendStatus,
                  currentModel, isModelLoading, pending >>

\* a chunk with is_finished set has been delivered to manager s
GotFinished(m) == \E i \in 1 .. Len(m.received) :
                     m.received[i].json /\ m.received[i].is_finished

RECURSIVE ReceivedUpTo(_)
ReceivedUpTo(n) == IF n = 0 THEN 0 ELSE Len(managers[n].received) + ReceivedUpTo(n - 1)
TotalReceived == ReceivedUpTo(Len(managers))

\* HasError that takes every chunk for a token chunk
HasError_Never(chunk) == FALSE

\* if (chunk.error): null, undefined and "" are falsy
HasError(chunk) == chunk.error # NoError

\* this.ws.onmessage; a message event is dispatched only while the socket is OPEN
ws_onmessage(s, frame) ==
  /\ managers[s].readyState = OPEN
  /\ LET g1 == [Store EXCEPT !.managers[s].received = Append(@, frame)]
     IN  IF ~frame.json
         THEN LET g2 == onError(g1, s, ErrParse)
              IN  Commit([g2 EXCEPT !.managers[s] = closeStream(@, ReasonParseError)])
         ELSE IF HasError(frame)
         THEN LET g2 == onError(g1, s, frame.error)
                  g3 == [g2 EXCEPT !.managers[s].receivedFinalChunk = TRUE]
              IN  Commit([g3 EXCEPT !.managers[s] = closeStream(@, ReasonBackendError)])
         ELSE LET g2 == onToken(g1, s, frame)
              IN  IF frame.is_finished
                  THEN Commit(onComplete([g2 EXCEPT !.managers[s].receivedFinalChunk = TRUE], s))
                  ELSE Commit(g2)
  /\ startError' = NoError
  /\ UNCHANGED << perfVars, generationParams, kvCacheOptionsObject, cacheOperationStatus, availableModels, backendStatus,
                  currentModel, isModelLoading, pending >>

\* this.ws.onerror
ws_onerror(m) == ClearTimer(m)

\* CloseOutcome that reports nothing for a normal closure without final chunk
CloseOutcome_NoImplicitCompletion(m, code) ==
  IF ~m.explicitlyClosed /\ ~m.receivedFinalChunk /\ code # NormalClosure THEN "error"
  ELSE "none"

\* what this.ws.onclose reports for a close event with event.code = code
CloseOutcome(m, code) ==
  IF ~m.explicitlyClosed /\ ~m.receivedFinalChunk /\ code # NormalClosure THEN "error"
  ELSE IF ~m.receivedFinalChunk /\ code = NormalClosure THEN "complete"
  ELSE "none"

\* The socket's closing task. It sets readyState to CLOSED and fires the close event:
\* with the code and reason of a close frame (1000, or the server's own code), which
\* takes an established connection, or with 1006 and no reason when the connection
\* failed (also when close() was called before the connection was established); a
\* failed connection fires the error event first. this.ws.onerror, then this.ws.onclose.
ws_onclose(s, event) ==
  /\ managers[s].readyState # NOSOCKET
  /\ ~managers[s].closeEventFired
  /\ event.code # AbnormalClosure => managers[s].established
  /\ LET m0 == [managers[s] EXCEPT !.readyState = CLOSED, !.closeEventFired = TRUE]
         m1 == ClearTimer(IF event.code = AbnormalClosure THEN ws_onerror(m0) ELSE m0)
         g1 == [Store EXCEPT !.managers[s] = m1]
         outcome == CloseOutcome(m1, event.code)
         g2 == IF outcome = "error"
               THEN onError(g1, s, ErrUnexpectedClose(event.code, event.reason))
               ELSE IF outcome = "complete" THEN onComplete(g1, s)
               ELSE g1
     IN  Commit([g2 EXCEPT !.managers[s].ws = FALSE])
  /\ startError' = NoError
  /\ UNCHANGED << perfVars, generationParams, kvCacheOptionsObject, cacheOperationStatus, availableModels, backendStatus,
                  currentModel, isModelLoading, pending >>

\* the setTimeout callback of startStream, run when its 10000 ms have elapsed
connectionTimeout(s) ==
  /\ managers[s].connectionTimeout = ConnectTimeoutUnits
  /\ LET m1 == ClearTimer(managers[s])
         g1 == [Store EXCEPT !.managers[s] = m1]
     IN  IF m1.ws /\ m1.readyState # OPEN
         THEN LET g2 == onError(g1, s, ErrTimedOut)
              IN  Commit([g2 EXCEPT !.managers[s] = SocketClose(@, NoCode, NoReason)])
         ELSE Commit(g1)
  /\ startError' = NoError
  /\ UNCHANGED << perfVars, generationParams, kvCacheOptionsObject, cacheOperationStatus, availableModels, backendStatus,
                  currentModel, isModelLoading, pending >>

\* d time units pass on every pending connect timer; a timer whose 10000 ms have
\* elapsed runs before more time passes
Tick(d) ==
  /\ \E s \in Sessions : managers[s].connectionTimeout # NoTimer
  /\ \A s \in Sessions : managers[s].connectionTimeout + d <= ConnectTimeoutUnits
  /\ managers' = [s \in Sessions |->
                    IF managers[s].connectionTimeout # NoTimer
                    THEN [managers[s] EXCEPT !.connectionTimeout = @ + d]
                    ELSE managers[s]]
  /\ startError' = NoError
  /\ UNCHANGED << perfVars, generationParams, kvCacheOptionsObject, cacheOperationStatus, availableModels, isGenerating, currentOutputStream, lastChunk,
                  streamManager, backendStatus, lastError,
                  currentModel, isModelLoading, pending >>

(* -------------------- generationStore: parameters ---------------------- *)
\* the partial objects with keys among `keys`, values(k) giving the values a key may take
Pieces(key, values) == {EmptyObject} \cup {[k \in {key} |-> v] : v \in values}

\* partial kv_cache_options as the settings panel's inputs produce them
KvCacheUpdates ==
  {Merge(b, g) : b \in Pieces("bits", {None, Some(4), Some(8)}),
                 g \in Pieces("group_size", {Some(32), Some(64)})}

\* logit_bias maps: token id |-> offset
LogitBiasMaps ==
  {Merge(a, b) : a \in Pieces("1", {-5, 5}), b \in Pieces("2", {-5, 5})}

\* the arguments of updateGenerationParams
ParamUpdates ==
  {Merge(Merge(m, kv), lb) : m \in Pieces("max_tokens", {256, 4096}),
                             kv \in Pieces("kv_cache_options", KvCacheUpdates),
                             lb \in Pieces("logit_bias", LogitBiasMaps)}

updateGenerationParams(params) ==
  /\ generationParams' = UpdatedParams(generationParams, params)
  /\ kvCacheOptionsObject' = IF "kv_cache_options" \in DOMAIN params
                             THEN OwnKvCacheOptionsObject ELSE kvCacheOptionsObject
  /\ startError' = NoError
  /\ UNCHANGED << perfVars, cacheOperationStatus, isGenerating, currentOutputStream, lastChunk,
                  streamManager, managers, backendStatus, lastError, currentModel,
                  isModelLoading, availableModels, pending >>

resetGenerationParams ==
  /\ generationParams' = DEFAULT_GENERATION_PARAMS
  /\ kvCacheOptionsObject' = ShallowCopyKvCacheOptionsObject
  /\ startError' = NoError
  /\ UNCHANGED << perfVars, cacheOperationStatus, isGenerating, currentOutputStream, lastChunk,
                  streamManager, managers, backendStatus, lastError, currentModel,
                  isModelLoading, availableModels, pending >>

(* ------------------------------ modelStore ----------------------------- *)
\* the responses of POST /models/load as loadModelByIdentifier hands them on:
\* a thrown Error (non-2xx or network failure) or the ModelLoadResponse
LoadResponses ==
  {[thrown |-> TRUE]} \cup
  [thrown : {FALSE}, success : {TRUE}, message : {NoError},
   model_info : {None} \cup {Some(m) : m \in ModelInfos}] \cup
  [thrown : {FALSE}, success : {FALSE}, message : {NoError, BackendMessage},
   model_info : {None, Some(ModelB)}]
\* POST /models/unload as unloadCurrentModel hands it on
UnloadResponses ==
  {[thrown |-> TRUE]} \cup [thrown : {FALSE}, success : BOOLEAN, message : {NoError, BackendMessage}]
\* GET /models/current as fetchCurrentModelInfo hands it on: thrown, null, or a ModelInfo
\* (one of them with an empty id)
StatusResponses ==
  {[thrown |-> TRUE]} \cup
  [thrown : {FALSE},
   modelInfo : {None, Some([id |-> "", name |-> "", adapter_path |-> NULL, is_loaded |-> FALSE])} \cup {Some(m) : m \in ModelInfos}]

\* an assignment to currentModel.value, and the generation store's watcher that it triggers
setCurrentModel(g, newModel) ==
  /\ currentModel' = newModel
  /\ Commit(watchCurrentModel(g, newModel, currentModel))

\* a call that returns at once: nothing changes
Ignored ==
  /\ startError' = NoError
  /\ UNCHANGED << perfVars, generationParams, kvCacheOptionsObject, cacheOperationStatus, availableModels, isGenerating, currentOutputStream, lastChunk,
                  streamManager, managers, backendStatus, lastError,
                  currentModel, isModelLoading, pending >>

\* GET /models as fetchLocalModels hands it on: a thrown Error or the list of ModelInfo
ListResponses ==
  {[thrown |-> TRUE]} \cup [thrown : {FALSE}, models : {<< >>, <<ModelA>>, <<ModelA, ModelB>>}]

\* fetchLocalModelsList without its early return
fetchLocalModelsList_Unguarded ==
    /\ isModelLoading' = TRUE
    /\ lastError' = NoError
    /\ pending' = [pending EXCEPT !.list = @ + 1]
    /\ startError' = NoError
    /\ UNCHANGED << perfVars, generationParams, kvCacheOptionsObject, cacheOperationStatus, availableModels, isGenerating, currentOutputStream, lastChunk,
                    streamManager, managers, backendStatus, currentModel >>

\* fetchLocalModelsList() up to its await
fetchLocalModelsList ==
  IF isModelLoading /\ Len(availableModels) > 0 THEN Ignored
  ELSE
    /\ isModelLoading' = TRUE
    /\ lastError' = NoError
    /\ pending' = [pending EXCEPT !.list = @ + 1]
    /\ startError' = NoError
    /\ UNCHANGED << perfVars, generationParams, kvCacheOptionsObject, cacheOperationStatus, availableModels, isGenerating, currentOutputStream,
                    lastChunk, streamManager, managers, backendStatus, currentModel >>

\* fetchLocalModelsList from the moment fetchLocalModels settles
fetchLocalModelsListSettles(result) ==
  /\ pending.list > 0
  /\ pending' = [pending EXCEPT !.list = @ - 1]
  /\ IF result.thrown
     THEN /\ lastError' = ErrListThrown
          /\ availableModels' = << >>
     ELSE /\ availableModels' = result.models
          /\ UNCHANGED lastError
  /\ isModelLoading' = FALSE
  /\ startError' = NoError
  /\ UNCHANGED << perfVars, generationParams, kvCacheOptionsObject, cacheOperationStatus, isGenerating, currentOutputStream, lastChunk,
                  streamManager, managers, backendStatus, currentModel >>

\* loadModel(identifier, adapterPath) up to its await
loadModel ==
  IF isModelLoading THEN Ignored
  ELSE
    /\ isModelLoading' = TRUE
    /\ lastError' = NoError
    /\ pending' = [pending EXCEPT !.load = @ + 1]
    /\ startError' = NoError
    /\ UNCHANGED << perfVars, generationParams, kvCacheOptionsObject, cacheOperationStatus, availableModels, isGenerating, currentOutputStream, lastChunk,
                    streamManager, managers, backendStatus, currentModel >>

\* loadModelSettles without the finally block: a thrown error leaves the flag set
loadModelSettles_FlagStuckOnThrow(result) ==
  /\ pending.load > 0
  /\ pending' = [pending EXCEPT !.load = @ - 1]
  /\ IF result.thrown
     THEN setCurrentModel([Store EXCEPT !.lastError = ErrLoadThrown], None)
     ELSE IF result.success /\ result.model_info # None
     THEN setCurrentModel(Store, result.model_info)
     ELSE /\ lastError' = (IF result.message # NoError THEN result.message ELSE ErrLoadDefault(LoadIdentifier))
          /\ UNCHANGED << currentModel, isGenerating, currentOutputStream, lastChunk,
                          streamManager, managers >>
  /\ isModelLoading' = IF result.thrown THEN isModelLoading ELSE FALSE
  /\ startError' = NoError
  /\ UNCHANGED << perfVars, generationParams, kvCacheOptionsObject, cacheOperationStatus, availableModels, backendStatus >>

\* loadModelSettles that clears the current model on a negative result too
loadModelSettles_ClearsOnNegative(result) ==
  /\ pending.load > 0
  /\ pending' = [pending EXCEPT !.load = @ - 1]
  /\ IF result.thrown
     THEN setCurrentModel([Store EXCEPT !.lastError = ErrLoadThrown], None)
     ELSE IF result.success /\ result.model_info # None
     THEN setCurrentModel(Store, result.model_info)
     ELSE setCurrentModel(
            [Store EXCEPT !.lastError = (IF result.message # NoError THEN result.message
                                         ELSE ErrLoadDefault(LoadIdentifier))], None)
  /\ isModelLoading' = FALSE
  /\ startError' = NoError
  /\ UNCHANGED << perfVars, generationParams, kvCacheOptionsObject, cacheOperationStatus, availableModels, backendStatus >>

\* what loadModel does with the result of loadModelByIdentifier
loadModelResumes(result) ==
  /\ IF result.thrown
     THEN setCurrentModel([Store EXCEPT !.lastError = ErrLoadThrown], None)
     ELSE IF result.success /\ result.model_info # None
     THEN setCurrentModel(Store, result.model_info)
     ELSE /\ lastError' = (IF result.message # NoError THEN result.message ELSE ErrLoadDefault(LoadIdentifier))
          /\ UNCHANGED << currentModel, isGenerating, currentOutputStream, lastChunk,
                          streamManager, managers >>
  /\ isModelLoading' = FALSE
  /\ startError' = NoError
  /\ UNCHANGED << perfVars, generationParams, kvCacheOptionsObject, cacheOperationStatus, availableModels, backendStatus >>

\* loadModel from the moment loadModelByIdentifier settles
loadModelSettles(result) ==
  /\ pending.load > 0
  /\ pending' = [pending EXCEPT !.load = @ - 1]
  /\ loadModelResumes(result)

\* unloadModel() up to its await
unloadModel ==
  IF currentModel = None \/ isModelLoading THEN Ignored
  ELSE
    /\ isModelLoading' = TRUE
    /\ lastError' = NoError
    /\ pending' = [pending EXCEPT !.unload = Append(@, currentModel[1].name)]
    /\ startError' = NoError
    /\ UNCHANGED << perfVars, generationParams, kvCacheOptionsObject, cacheOperationStatus, availableModels, isGenerating, currentOutputStream, lastChunk,
                    streamManager, managers, backendStatus, currentModel >>

\* unloadModel from the moment unloadCurrentModel settles
unloadModelSettles(result) ==
  \* pending.unload[i] is the modelNameToUnload of the call that resumes
  \E i \in 1 .. Len(pending.unload) :
    /\ pending' = [pending EXCEPT !.unload = RemoveAt(@, i)]
    /\ IF result.thrown
       THEN /\ lastError' = ErrUnloadThrown
            /\ UNCHANGED << currentModel, isGenerating, currentOutputStream, lastChunk,
                            streamManager, managers >>
       ELSE IF result.success
       THEN setCurrentModel(Store, None)
       ELSE /\ lastError' = (IF result.message # NoError THEN result.message
                             ELSE ErrUnloadDefault(pending.unload[i]))
            /\ UNCHANGED << currentModel, isGenerating, currentOutputStream, lastChunk,
                            streamManager, managers >>
    /\ isModelLoading' = FALSE
    /\ startError' = NoError
    /\ UNCHANGED << perfVars, generationParams, kvCacheOptionsObject, cacheOperationStatus,
                    availableModels, backendStatus >>

\* fetchCurrentModelStatus() up to its await
fetchCurrentModelStatus ==
  /\ lastError' = NoError
  /\ pending' = [pending EXCEPT !.status = @ + 1]
  /\ startError' = NoError
  /\ UNCHANGED << perfVars, generationParams, kvCacheOptionsObject, cacheOperationStatus, availableModels, isGenerating, currentOutputStream, lastChunk,
                  streamManager, managers, backendStatus,
                  currentModel, isModelLoading >>

\* fetchCurrentModelStatusSettles with the finally block of the other operations
fetchCurrentModelStatusSettles_ClearsFlag(result) ==
  /\ pending.status > 0
  /\ pending' = [pending EXCEPT !.status = @ - 1]
  /\ IF result.thrown
     THEN setCurrentModel([Store EXCEPT !.lastError = ErrStatusThrown], None)
     ELSE IF result.modelInfo # None /\ result.modelInfo[1].id # ""
     THEN setCurrentModel(Store, result.modelInfo)
     ELSE setCurrentModel(Store, None)
  /\ isModelLoading' = FALSE
  /\ startError' = NoError
  /\ UNCHANGED << perfVars, generationParams, kvCacheOptionsObject, cacheOperationStatus, availableModels, backendStatus >>

\* what fetchCurrentModelStatus does with the result of fetchCurrentModelInfo
fetchCurrentModelStatusResumes(result) ==
  /\ IF result.thrown
     THEN setCurrentModel([Store EXCEPT !.lastError = ErrStatusThrown], None)
     ELSE IF result.modelInfo # None /\ result.modelInfo[1].id # ""
     THEN setCurrentModel(Store, result.modelInfo)
     ELSE setCurrentModel(Store, None)
  /\ startError' = NoError
  /\ UNCHANGED << perfVars, generationParams, kvCacheOptionsObject, cacheOperationStatus, availableModels, backendStatus, isModelLoading >>

\* fetchCurrentModelStatus from the moment fetchCurrentModelInfo settles
fetchCurrentModelStatusSettles(result) ==
  /\ pending.status > 0
  /\ pending' = [pending EXCEPT !.status = @ - 1]
  /\ fetchCurrentModelStatusResumes(result)

(* ------------- the backend's current model and its answers ------------- *)
\* pending.backendModel is the model the backend holds; pending.statusAnswers and
\* pending.loadAnswers are the answers it has produced to GET /models/current and
\* POST /models/load requests and that have not been delivered yet
storeVars ==
  << generationParams, kvCacheOptionsObject, cacheOperationStatus, isGenerating,
     currentOutputStream, lastChunk, streamManager, managers, startError, backendStatus,
     lastError, currentModel, isModelLoading, availableModels, perfVars >>

\* the backend answers a status request with the model it holds at that moment
backendAnswersStatus ==
  /\ Len(pending.statusAnswers) < pending.status
  /\ pending' = [pending EXCEPT !.statusAnswers = Append(@, pending.backendModel)]
  /\ UNCHANGED storeVars

\* the backend applies a load request and answers it with the loaded descriptor
backendAppliesLoad(model) ==
  /\ Len(pending.loadAnswers) < pending.load
  /\ pending' = [pending EXCEPT
                   !.backendModel = Some(model),
                   !.loadAnswers = Append(@, [thrown |-> FALSE, success |-> TRUE,
                                              message |-> NoError,
                                              model_info |-> Some(model)])]
  /\ UNCHANGED storeVars

\* the answers arrive in any order: the i-th undelivered answer resumes its caller
statusAnswerDelivered(i) ==
  /\ i \in 1 .. Len(pending.statusAnswers)
  /\ pending' = [pending EXCEPT !.status = @ - 1, !.statusAnswers = RemoveAt(@, i)]
  /\ fetchCurrentModelStatusResumes([thrown |-> FALSE,
                                     modelInfo |-> pending.statusAnswers[i]])

loadAnswerDelivered(i) ==
  /\ i \in 1 .. Len(pending.loadAnswers)
  /\ pending' = [pending EXCEPT !.load = @ - 1, !.loadAnswers = RemoveAt(@, i)]
  /\ loadModelResumes(pending.loadAnswers[i])

(* ------------------------- appStore and health ------------------------- *)
\* what GET /health can give: a thrown error, or a response (ok: 2xx) with a status field
HealthResponses ==
  {[thrown |-> TRUE]} \cup [thrown : {FALSE}, ok : BOOLEAN, status : {"ok", "degraded"}]

\* api/health.ts checkBackendHealth: the response as a boolean
checkBackendHealthApi(response) ==
  IF response.thrown THEN FALSE
  ELSE IF ~response.ok THEN FALSE
  ELSE response.status = "ok"

\* appStore.setBackendStatus(status)
setBackendStatus(status) ==
  /\ backendStatus' = status
  /\ startError' = NoError
  /\ UNCHANGED << perfVars, generationParams, kvCacheOptionsObject, cacheOperationStatus,
                  availableModels, isGenerating, currentOutputStream, lastChunk, streamManager,
                  managers, lastError, currentModel, isModelLoading, pending >>

\* appStore.setLastError(error), called by a component
setLastError(error) ==
  /\ lastError' = error
  /\ startError' = NoError
  /\ UNCHANGED << perfVars, generationParams, kvCacheOptionsObject, cacheOperationStatus,
                  availableModels, isGenerating, currentOutputStream, lastChunk, streamManager,
                  managers, backendStatus, currentModel, isModelLoading, pending >>

\* appStore.clearError(), called by a component (the dismiss button of the error banner)
clearError ==
  /\ lastError' = NoError
  /\ startError' = NoError
  /\ UNCHANGED << perfVars, generationParams, kvCacheOptionsObject, cacheOperationStatus,
                  availableModels, isGenerating, currentOutputStream, lastChunk, streamManager,
                  managers, backendStatus, currentModel, isModelLoading, pending >>

\* appStore.checkBackendHealth() up to its await
checkBackendHealth ==
  /\ backendStatus' = "checking"
  /\ pending' = [pending EXCEPT !.health = @ + 1]
  /\ startError' = NoError
  /\ UNCHANGED << perfVars, generationParams, kvCacheOptionsObject, cacheOperationStatus, availableModels, isGenerating, currentOutputStream, lastChunk,
                  streamManager, managers, lastError,
                  currentModel, isModelLoading >>

\* appStore.checkBackendHealth() from the moment the health request settles
\* checkBackendHealthSettles that clears whatever error is shown when the backend is healthy
checkBackendHealthSettles_ClearsAnyError(response) ==
  /\ pending.health > 0
  /\ pending' = [pending EXCEPT !.health = @ - 1]
  /\ LET isHealthy == checkBackendHealthApi(response)
         newStatus == IF isHealthy THEN "online" ELSE "offline"
     IN  /\ backendStatus' = newStatus
         /\ lastError' = IF ~isHealthy /\ newStatus # "offline" THEN HealthOfflineMsg
                         ELSE IF isHealthy THEN NoError
                         ELSE lastError
  /\ startError' = NoError
  /\ UNCHANGED << perfVars, generationParams, kvCacheOptionsObject, cacheOperationStatus, availableModels, isGenerating, currentOutputStream, lastChunk,
                  streamManager, managers, currentModel, isModelLoading >>

checkBackendHealthSettles(response) ==
  /\ pending.health > 0
  /\ pending' = [pending EXCEPT !.health = @ - 1]
  /\ LET isHealthy == checkBackendHealthApi(response)
         newStatus == IF isHealthy THEN "online" ELSE "offline"
     IN  /\ backendStatus' = newStatus
         /\ lastError' = IF ~isHealthy /\ newStatus # "offline" THEN HealthOfflineMsg
                         ELSE IF isHealthy /\ lastError = HealthOfflineMsg THEN NoError
                         ELSE lastError
  /\ startError' = NoError
  /\ UNCHANGED << perfVars, generationParams, kvCacheOptionsObject, cacheOperationStatus, availableModels, isGenerating, currentOutputStream, lastChunk,
                  streamManager, managers, currentModel, isModelLoading >>

(* ------------------------- cache operations ---------------------------- *)
\* performCacheOperation's messages
ErrCacheNoModel == <<"No model loaded for cache operation.">>
CacheNoModelMessage == <<"No model loaded.">>
Performing(operation) == <<"Performing ", operation, "...">>
FailedTo(operation) == <<"Failed to ", operation, " cache.">>
\* the messages of saveKVCache, loadKVCache and trimKVCache
ErrCacheFetch == <<"Failed to fetch">>
Gerund(operation) ==
  IF operation = "save" THEN "saving" ELSE IF operation = "load" THEN "loading" ELSE "trimming"
HttpErrorCache(operation) == <<"HTTP error ", Gerund(operation), " cache: ", "500">>
\* the panel's validation messages
ErrFilenameEmpty == <<"Filename cannot be empty.">>
ErrTrimTooFew == <<"Tokens to trim must be at least 1.">>

CacheStatus(message, type, isLoading, cache_size) ==
  [message |-> message, type |-> type, isLoading |-> isLoading, cache_size |-> cache_size]

\* what a cache request can meet: fetch or response.json() throws, or a response (ok: 2xx)
\* whose body is a CacheResponse
CacheOutcomes ==
  {[thrown |-> TRUE]} \cup
  [thrown : {FALSE}, ok : BOOLEAN,
   data : [success : BOOLEAN, message : {NoError, BackendMessage}, cache_size : {None, Some(42)}]]

\* saveKVCache, loadKVCache, trimKVCache: the CacheResponse they resolve to (they never
\* reject)
KVCacheApi(operation, outcome) ==
  IF outcome.thrown
  THEN [success |-> FALSE, message |-> ErrCacheFetch, cache_size |-> None]
  ELSE IF ~outcome.ok
  THEN [success |-> FALSE,
        message |-> IF outcome.data.message # NoError THEN outcome.data.message
                    ELSE HttpErrorCache(operation),
        cache_size |-> None]
  ELSE outcome.data

\* performCacheOperation without its first early return
performCacheOperation_NotSingleFlight(operation, body) ==
  /\ IF currentModel = None
     THEN /\ lastError' = ErrCacheNoModel
          /\ cacheOperationStatus' = CacheStatus(CacheNoModelMessage, "error", FALSE, None)
          /\ UNCHANGED pending
     ELSE /\ cacheOperationStatus' = CacheStatus(Performing(operation), "info", TRUE, None)
          /\ lastError' = NoError
          /\ pending' = [pending EXCEPT
                           !.cache = Append(@, [operation |-> operation, body |-> body])]
  /\ startError' = NoError
  /\ UNCHANGED << perfVars, generationParams, kvCacheOptionsObject, isGenerating, currentOutputStream,
                  lastChunk, streamManager, managers, backendStatus, currentModel,
                  isModelLoading, availableModels >>

\* performCacheOperation without its no-model check
performCacheOperation_NoModelCheck(operation, body) ==
  IF cacheOperationStatus.isLoading THEN Ignored
  ELSE
    /\ cacheOperationStatus' = CacheStatus(Performing(operation), "info", TRUE, None)
    /\ lastError' = NoError
    /\ pending' = [pending EXCEPT
                     !.cache = Append(@, [operation |-> operation, body |-> body])]
    /\ startError' = NoError
    /\ UNCHANGED << perfVars, generationParams, kvCacheOptionsObject, isGenerating, currentOutputStream,
                    lastChunk, streamManager, managers, backendStatus, currentModel,
                    isModelLoading, availableModels >>

\* performCacheOperation(operation, filenameOrTokens) up to its await
performCacheOperation(operation, body) ==
  IF cacheOperationStatus.isLoading THEN Ignored
  ELSE
    /\ IF currentModel = None
       THEN /\ lastError' = ErrCacheNoModel
            /\ cacheOperationStatus' = CacheStatus(CacheNoModelMessage, "error", FALSE, None)
            /\ UNCHANGED pending
       ELSE /\ cacheOperationStatus' = CacheStatus(Performing(operation), "info", TRUE, None)
            /\ lastError' = NoError
            /\ pending' = [pending EXCEPT
                             !.cache = Append(@, [operation |-> operation, body |-> body])]
    /\ startError' = NoError
    /\ UNCHANGED << perfVars, generationParams, kvCacheOptionsObject, isGenerating, currentOutputStream,
                    lastChunk, streamManager, managers, backendStatus, currentModel,
                    isModelLoading, availableModels >>

\* performCacheOperationSettles that keeps the slot in progress on a failure
performCacheOperationSettles_StaysLoading(i, outcome) ==
  /\ i \in 1 .. Len(pending.cache)
  /\ LET operation == pending.cache[i].operation
         result == KVCacheApi(operation, outcome)
         errorMsg == IF result.message # NoError THEN result.message ELSE FailedTo(operation)
     IN  IF result.success
         THEN /\ cacheOperationStatus' =
                   CacheStatus(result.message, "success", FALSE, result.cache_size)
              /\ UNCHANGED lastError
         ELSE /\ cacheOperationStatus' = CacheStatus(errorMsg, "error", TRUE, None)
              /\ lastError' = errorMsg
  /\ pending' = [pending EXCEPT !.cache = RemoveAt(@, i)]
  /\ startError' = NoError
  /\ UNCHANGED << perfVars, generationParams, kvCacheOptionsObject, isGenerating, currentOutputStream,
                  lastChunk, streamManager, managers, backendStatus, currentModel,
                  isModelLoading, availableModels >>

\* performCacheOperation from the moment the i-th outstanding cache request settles
performCacheOperationSettles(i, outcome) ==
  /\ i \in 1 .. Len(pending.cache)
  /\ LET operation == pending.cache[i].operation
         result == KVCacheApi(operation, outcome)
         errorMsg == IF result.message # NoError THEN result.message ELSE FailedTo(operation)
     IN  IF result.success
         THEN /\ cacheOperationStatus' =
                   CacheStatus(result.message, "success", FALSE, result.cache_size)
              /\ UNCHANGED lastError
         ELSE /\ cacheOperationStatus' = CacheStatus(errorMsg, "error", FALSE, None)
              /\ lastError' = errorMsg
  /\ pending' = [pending EXCEPT !.cache = RemoveAt(@, i)]
  /\ startError' = NoError
  /\ UNCHANGED << perfVars, generationParams, kvCacheOptionsObject, isGenerating, currentOutputStream,
                  lastChunk, streamManager, managers, backendStatus, currentModel,
                  isModelLoading, availableModels >>

saveCache(filename) == performCacheOperation("save", [filename |-> filename])
loadCache(filename) == performCacheOperation("load", [filename |-> filename])
trimCache(numTokens) == performCacheOperation("trim", [num_tokens |-> numTokens])

(* ------------------------ CacheManagementPanel ------------------------- *)
\* strings the panel edits are sequences of characters
\* String.prototype.trim strips the WhiteSpace and LineTerminator characters of
\* ECMAScript from both ends. In the order written here: U+0020 space, U+0009 tab,
\* U+000B vertical tab, U+000C form feed, U+00A0 no-break space, U+1680, U+FEFF,
\* U+000A line feed, U+000D carriage return. The remaining ones (U+2000 to U+200A,
\* U+2028, U+2029, U+202F, U+205F, U+3000) cannot be written in a string of a
\* module, so no string here contains them.
WhiteSpace == {" ", "\t", "", "\f", " ", " ", "﻿", "\n", "\r"}
RECURSIVE TrimStart(_)
TrimStart(s) == IF s # << >> /\ Head(s) \in WhiteSpace THEN TrimStart(Tail(s)) ELSE s
RECURSIVE TrimEnd(_)
TrimEnd(s) ==
  IF s # << >> /\ s[Len(s)] \in WhiteSpace THEN TrimEnd(SubSeq(s, 1, Len(s) - 1)) ELSE s
trim(s) == TrimEnd(TrimStart(s))

DefaultFilenameBase == <<"m", "l", "x", "u", "i", "_", "k", "v", "_", "c", "a", "c", "h", "e">>
getFilenameWithExt(cacheFilenameBase) ==
  (IF trim(cacheFilenameBase) # << >> THEN trim(cacheFilenameBase) ELSE DefaultFilenameBase)
  \o <<".safetensors">>

isModelLoaded == currentModel # None /\ currentModel[1].is_loaded
\* the panel's buttons are disabled while isLoading || !isModelLoaded
ButtonsEnabled == ~cacheOperationStatus.isLoading /\ isModelLoaded

\* generationStore.cacheOperationStatus = {message, type: 'error', isLoading: false}
RejectInPanel(message) ==
  /\ cacheOperationStatus' = CacheStatus(message, "error", FALSE, None)
  /\ startError' = NoError
  /\ UNCHANGED << perfVars, generationParams, kvCacheOptionsObject, isGenerating, currentOutputStream,
                  lastChunk, streamManager, managers, backendStatus, lastError, currentModel,
                  isModelLoading, availableModels, pending >>

handleSave(cacheFilenameBase) ==
  /\ ButtonsEnabled
  /\ IF trim(cacheFilenameBase) = << >> THEN RejectInPanel(ErrFilenameEmpty)
     ELSE saveCache(getFilenameWithExt(cacheFilenameBase))

handleLoad(cacheFilenameBase) ==
  /\ ButtonsEnabled
  /\ IF trim(cacheFilenameBase) = << >> THEN RejectInPanel(ErrFilenameEmpty)
     ELSE loadCache(getFilenameWithExt(cacheFilenameBase))

\* handleTrim that hands every count on to the store
handleTrim_Unvalidated(trimTokensInput) ==
  /\ ButtonsEnabled
  /\ trimCache(trimTokensInput)

handleTrim(trimTokensInput) ==
  /\ ButtonsEnabled
  /\ IF trimTokensInput < 1 THEN RejectInPanel(ErrTrimTooFew)
     ELSE trimCache(trimTokensInput)

\* what the user can have typed into the panel's inputs
\* (among them a vertical tab alone, and "c" between a vertical tab and a no-break space)
FilenameBases ==
  {<< >>, <<" ">>, <<"\t">>, <<"">>, <<"c">>, <<" ", "c", " ">>, <<"\t", "c", "\n">>,
   <<"", "c", " ">>}
TrimTokenInputs == {-1, 0, 1, 100}
\* the arguments the store's cache operations are called with
Filenames == {getFilenameWithExt(b) : b \in {<<"c">>}}
TokenCounts == {1, 100}

(* ---------------------- PerformanceStreamManager ----------------------- *)
\* everything outside the performance store, the pending requests and startError
nonPerfVars ==
  << generationParams, kvCacheOptionsObject, cacheOperationStatus, isGenerating,
     currentOutputStream, lastChunk, streamManager, managers, backendStatus, lastError,
     currentModel, isModelLoading, availableModels >>

\* the performance store and its managers as one value
PerfStore ==
  [ currentMetrics |-> currentMetrics, historicalMetrics |-> historicalMetrics,
    isStreaming |-> isStreaming, streamManager |-> performanceStreamManager,
    managers |-> performanceManagers ]

PerfCommit(p) ==
  /\ currentMetrics' = p.currentMetrics
  /\ historicalMetrics' = p.historicalMetrics
  /\ isStreaming' = p.isStreaming
  /\ performanceStreamManager' = p.streamManager
  /\ performanceManagers' = p.managers

\* Array.prototype.slice(-n): the last n elements, all of them when there are fewer
SliceLast(seq, n) == SubSeq(seq, IF Len(seq) > n THEN Len(seq) - n + 1 ELSE 1, Len(seq))

\* addHistoricalDataPoint that keeps the oldest samples
addHistoricalDataPoint_KeepsOldest(history, metrics) ==
  SubSeq(Append(history, metrics), 1,
         IF Len(history) + 1 > maxHistory THEN maxHistory ELSE Len(history) + 1)

addHistoricalDataPoint(history, metrics) ==
  LET newHistory == Append(history, metrics)
  IN  SliceLast(newHistory, maxHistory)

\* a PerformanceStreamManager before its constructor calls connect()
\* ws: this.ws references a socket; reconnectTimeoutId: the delay of the timer last set,
\* NoTimer when none was set; timerPending: that timer has neither run nor been cleared;
\* closuresSinceOpen, constructionFailuresSinceOpen: the unexpected closures and the
\* failed socket constructions since the manager's socket last opened;
\* terminalErrors, onComplete: how often the manager reported the terminal error and
\* completion
NewPerformanceManager ==
  [ ws |-> FALSE,
    reconnectAttempts |-> 0,
    reconnectTimeoutId |-> NoTimer,
    timerPending |-> FALSE,
    explicitlyClosed |-> FALSE,
    readyState |-> NOSOCKET,
    closuresSinceOpen |-> 0,
    constructionFailuresSinceOpen |-> 0,
    terminalErrors |-> 0,
    onComplete |-> 0 ]

\* the three callbacks startStreamingMetrics gives its manager
perf_onMetrics(p, metrics) ==
  [p EXCEPT !.currentMetrics = Some(metrics),
            !.historicalMetrics = addHistoricalDataPoint(@, metrics)]

perf_onError(p) == [p EXCEPT !.isStreaming = FALSE, !.streamManager = NoManager]

perf_onComplete(p, m) ==
  [p EXCEPT !.isStreaming = FALSE, !.streamManager = NoManager,
            !.managers[m].onComplete = @ + 1]

\* Math.min(initialReconnectDelay * Math.pow(2, reconnectAttempts - 1), 30000)
ReconnectDelay_Uncapped(reconnectAttempts) ==
  initialReconnectDelay * 2 ^ (reconnectAttempts - 1)

ReconnectDelay(reconnectAttempts) ==
  LET delay == initialReconnectDelay * 2 ^ (reconnectAttempts - 1)
  IN  IF delay < maxReconnectDelay THEN delay ELSE maxReconnectDelay

\* scheduleReconnect that gives up one attempt earlier
perf_scheduleReconnect_FourAttempts(p, m) ==
  LET mgr == p.managers[m]
  IN  IF mgr.reconnectAttempts < maxReconnectAttempts - 1 /\ ~mgr.explicitlyClosed
      THEN [p EXCEPT !.managers[m].reconnectAttempts = @ + 1,
                     !.managers[m].reconnectTimeoutId =
                        ReconnectDelay(mgr.reconnectAttempts + 1),
                     !.managers[m].timerPending = TRUE]
      ELSE IF ~mgr.explicitlyClosed
      THEN [perf_onError(p) EXCEPT !.managers[m].terminalErrors = @ + 1]
      ELSE p

perf_scheduleReconnect(p, m) ==
  LET mgr == p.managers[m]
  IN  IF mgr.reconnectAttempts < maxReconnectAttempts /\ ~mgr.explicitlyClosed
      THEN [p EXCEPT !.managers[m].reconnectAttempts = @ + 1,
                     !.managers[m].reconnectTimeoutId =
                        ReconnectDelay(mgr.reconnectAttempts + 1),
                     !.managers[m].timerPending = TRUE]
      ELSE IF ~mgr.explicitlyClosed
      THEN [perf_onError(p) EXCEPT !.managers[m].terminalErrors = @ + 1]
      ELSE p

perf_handleConnectionError(p, m) == perf_scheduleReconnect(perf_onError(p), m)

\* connect(); ctorThrows: whether new WebSocket(wsUrl) throws
perf_connect(p, m, ctorThrows) ==
  LET mgr == p.managers[m]
  IN  IF mgr.ws /\ mgr.readyState \in {OPEN, CONNECTING} THEN p
      ELSE LET p1 == [p EXCEPT !.managers[m].explicitlyClosed = FALSE]
           IN  IF ctorThrows
               THEN perf_handleConnectionError(
                      [p1 EXCEPT !.managers[m].constructionFailuresSinceOpen = @ + 1], m)
               ELSE [p1 EXCEPT !.managers[m].ws = TRUE,
                               !.managers[m].readyState = CONNECTING]

\* closeStream(reason)
perf_closeStream(p, m) ==
  LET mgr == p.managers[m]
  IN  [p EXCEPT !.managers[m].explicitlyClosed = TRUE,
                !.managers[m].timerPending = FALSE,
                !.managers[m].readyState =
                   IF mgr.ws /\ mgr.readyState \in {OPEN, CONNECTING} THEN CLOSING ELSE @,
                !.managers[m].ws = FALSE]

(* -------------------------- performanceStore --------------------------- *)
PerfStep(p) ==
  /\ PerfCommit(p)
  /\ startError' = NoError
  /\ UNCHANGED << nonPerfVars, pending >>

\* startStreamingMetrics without its early return
startStreamingMetrics_Unguarded(ctorThrows) ==
  LET m == Len(performanceManagers) + 1
      p1 == [PerfStore EXCEPT !.isStreaming = TRUE,
                              !.managers = Append(@, NewPerformanceManager)]
      p2 == perf_connect(p1, m, ctorThrows)
  IN  PerfStep([p2 EXCEPT !.streamManager = m])

\* startStreamingMetrics(): the constructor runs connect() before the store's reference
\* is assigned
startStreamingMetrics(ctorThrows) ==
  IF isStreaming \/ performanceStreamManager # NoManager THEN Ignored
  ELSE LET m == Len(performanceManagers) + 1
           p1 == [PerfStore EXCEPT !.isStreaming = TRUE,
                                   !.managers = Append(@, NewPerformanceManager)]
           p2 == perf_connect(p1, m, ctorThrows)
       IN  PerfStep([p2 EXCEPT !.streamManager = m])

stopStreamingMetrics ==
  LET p1 == IF performanceStreamManager # NoManager
            THEN [perf_closeStream(PerfStore, performanceStreamManager)
                    EXCEPT !.streamManager = NoManager]
            ELSE PerfStore
  IN  PerfStep([p1 EXCEPT !.isStreaming = FALSE])

\* this.ws.onopen
\* onopen that leaves the attempt counter as it is
perf_onopen_KeepsAttempts(m) ==
  /\ m \in 1 .. Len(performanceManagers)
  /\ performanceManagers[m].readyState = CONNECTING
  /\ PerfStep([PerfStore EXCEPT !.managers[m].readyState = OPEN,
                                !.managers[m].closuresSinceOpen = 0,
                                !.managers[m].constructionFailuresSinceOpen = 0])

perf_onopen(m) ==
  /\ m \in 1 .. Len(performanceManagers)
  /\ performanceManagers[m].readyState = CONNECTING
  /\ PerfStep([PerfStore EXCEPT !.managers[m].readyState = OPEN,
                                !.managers[m].reconnectAttempts = 0,
                                !.managers[m].closuresSinceOpen = 0,
                                !.managers[m].constructionFailuresSinceOpen = 0])

\* the frames of the performance socket: a sample (data.timestamp set), an error report
\* (data.error set), anything else
PerfSample(n) == [kind |-> "sample", timestamp |-> n]
PerfErrorFrame == [kind |-> "error", timestamp |-> 0]
PerfMalformed == [kind |-> "malformed", timestamp |-> 0]

\* the sample that arrives next: samples are numbered in their order of arrival
NextSample ==
  IF currentMetrics = None THEN 1 ELSE currentMetrics[1] + 1

\* this.ws.onmessage
\* onmessage that reports a frame it cannot use to the error callback
perf_onmessage_MalformedIsError(m, frame) ==
  /\ m \in 1 .. Len(performanceManagers)
  /\ performanceManagers[m].readyState = OPEN
  /\ PerfStep(IF frame.kind = "sample" THEN perf_onMetrics(PerfStore, frame.timestamp)
              ELSE perf_onError(PerfStore))

perf_onmessage(m, frame) ==
  /\ m \in 1 .. Len(performanceManagers)
  /\ performanceManagers[m].readyState = OPEN
  /\ PerfStep(IF frame.kind = "sample" THEN perf_onMetrics(PerfStore, frame.timestamp)
              ELSE IF frame.kind = "error" THEN perf_onError(PerfStore)
              ELSE PerfStore)

\* this.ws.onclose: the socket has closed (failed to connect, closed by the backend or
\* the network, or closed after close())
perf_onclose(m) ==
  /\ m \in 1 .. Len(performanceManagers)
  /\ performanceManagers[m].readyState \in {CONNECTING, OPEN, CLOSING}
  /\ LET p1 == [PerfStore EXCEPT !.managers[m].readyState = CLOSED,
                                 !.managers[m].ws = FALSE]
     IN  PerfStep(IF ~p1.managers[m].explicitlyClosed
                  THEN perf_handleConnectionError(
                         [p1 EXCEPT !.managers[m].closuresSinceOpen = @ + 1], m)
                  ELSE perf_onComplete(p1, m))

\* the reconnect timer runs: () => this.connect()
perf_reconnectTimer(m, ctorThrows) ==
  /\ m \in 1 .. Len(performanceManagers)
  /\ performanceManagers[m].timerPending
  /\ PerfStep(perf_connect([PerfStore EXCEPT !.managers[m].timerPending = FALSE],
                           m, ctorThrows))

\* fetchCurrentStats() up to its await
fetchCurrentStats ==
  /\ pending' = [pending EXCEPT !.stats = @ + 1]
  /\ startError' = NoError
  /\ UNCHANGED << nonPerfVars, perfVars >>

\* fetchCurrentStats from the moment fetchPerformanceStats settles; stats: None for the
\* null that every failure gives, Some(sample)
fetchCurrentStatsSettles(stats) ==
  /\ pending.stats > 0
  /\ pending' = [pending EXCEPT !.stats = @ - 1]
  /\ PerfCommit(IF stats # None THEN perf_onMetrics(PerfStore, stats[1]) ELSE PerfStore)
  /\ startError' = NoError
  /\ UNCHANGED nonPerfVars

(* --------------------------- specifications ---------------------------- *)
\* The stream controller with a model loaded and the backend online: the state the
\* stores are in once a health check has answered ok and a load has succeeded.
InitLoaded ==
  /\ generationParams = DEFAULT_GENERATION_PARAMS
  /\ kvCacheOptionsObject = ShallowCopyKvCacheOptionsObject
  /\ cacheOperationStatus = [message |-> << >>, type |-> "", isLoading |-> FALSE, cache_size |-> None]
  /\ currentMetrics = None
  /\ historicalMetrics = << >>
  /\ isStreaming = FALSE
  /\ performanceStreamManager = NoManager
  /\ performanceManagers = << >>
  /\ isGenerating = FALSE
  /\ currentOutputStream = << >>
  /\ lastChunk = None
  /\ streamManager = NoManager
  /\ managers = << >>
  /\ startError = NoError
  /\ backendStatus = "online"
  /\ lastError = NoError
  /\ currentModel = Some(ModelA)
  /\ isModelLoading = FALSE
  /\ availableModels = << >>
  /\ pending = NoPending

\* time advances from one timer deadline to the next
DeadlineSteps == {ConnectTimeoutUnits}

NextStream ==
  \/ \E ctorThrows \in BOOLEAN :
       /\ StartRejection # NoError \/ Len(managers) < MaxSessions
       /\ startGenerationStream(MessagesPayload, ctorThrows)
  \/ stopGenerationStream(ReasonUser)
  \/ \E s \in Sessions, sendThrows \in BOOLEAN : ws_onopen(s, sendThrows)
  \/ \E s \in Sessions, frame \in StreamFrames : TotalReceived < MaxChunks /\ ws_onmessage(s, frame)
  \/ \E s \in Sessions, event \in CloseEvents : ws_onclose(s, event)
  \/ \E s \in Sessions : connectionTimeout(s)
  \/ \E d \in DeadlineSteps : Tick(d)

SpecStream == InitLoaded /\ [][NextStream]_vars

\* Stopping and starting again while the sockets of earlier sessions are still
\* closing: the stream controller with the plain socket events and text chunks.
RestartFrames == { Chunk(<<"H", "e">>, FALSE), Chunk(<<"l", "l", "o">>, FALSE) }

NextRestart ==
  \/ /\ StartRejection # NoError \/ Len(managers) < MaxRestartSessions
     /\ startGenerationStream(MessagesPayload, FALSE)
  \/ stopGenerationStream(ReasonUser)
  \/ \E s \in Sessions : ws_onopen(s, FALSE)
  \/ \E s \in Sessions, frame \in RestartFrames :
       TotalReceived < MaxRestartChunks /\ ws_onmessage(s, frame)
  \/ \E s \in Sessions, event \in CloseEvents : ws_onclose(s, event)

SpecRestart == InitLoaded /\ [][NextRestart]_vars

\* The stores together, from construction: the stream controller next to the model
\* store and the health monitor, with the plain socket events.
AppFrames == { Chunk(<<"H", "e">>, FALSE), Chunk(<<"l", "l", "o">>, TRUE), ErrorChunk }
TotalPending ==
  pending.load + Len(pending.unload) + pending.status + pending.list + pending.health
  + Len(pending.cache) + pending.stats

Next ==
  \/ /\ StartRejection # NoError \/ Len(managers) < MaxAppSessions
     /\ startGenerationStream(MessagesPayload, FALSE)
  \/ stopGenerationStream(ReasonUser)
  \/ \E s \in Sessions : ws_onopen(s, FALSE)
  \/ \E s \in Sessions, frame \in AppFrames : TotalReceived < MaxAppChunks /\ ws_onmessage(s, frame)
  \/ \E s \in Sessions, event \in CloseEvents : ws_onclose(s, event)
  \/ TotalPending < MaxPending /\ loadModel
  \/ \E result \in LoadResponses : loadModelSettles(result)
  \/ TotalPending < MaxPending /\ unloadModel
  \/ \E result \in UnloadResponses : unloadModelSettles(result)
  \/ TotalPending < MaxPending /\ fetchCurrentModelStatus
  \/ \E result \in StatusResponses : fetchCurrentModelStatusSettles(result)
  \/ TotalPending < MaxPending /\ checkBackendHealth
  \/ \E response \in HealthResponses : checkBackendHealthSettles(response)

Spec == Init /\ [][Next]_vars

\* The model store alone, from construction, with overlapping requests.
NextModels ==
  \/ TotalPending < MaxModelPending /\ fetchLocalModelsList
  \/ \E result \in ListResponses : fetchLocalModelsListSettles(result)
  \/ TotalPending < MaxModelPending /\ loadModel
  \/ \E result \in LoadResponses : loadModelSettles(result)
  \/ TotalPending < MaxModelPending /\ unloadModel
  \/ \E result \in UnloadResponses : unloadModelSettles(result)
  \/ TotalPending < MaxModelPending /\ fetchCurrentModelStatus
  \/ \E result \in StatusResponses : fetchCurrentModelStatusSettles(result)

SpecModels == Init /\ [][NextModels]_vars

\* every outstanding load, unload and list request eventually settles
SpecModelsFair ==
  /\ SpecModels
  /\ WF_vars(\E result \in LoadResponses : loadModelSettles(result))
  /\ WF_vars(\E result \in UnloadResponses : unloadModelSettles(result))
  /\ WF_vars(\E result \in ListResponses : fetchLocalModelsListSettles(result))

\* the parameter document under the settings panels' updates and resets
NextParams ==
  \/ \E params \in ParamUpdates : updateGenerationParams(params)
  \/ resetGenerationParams

SpecParams == Init /\ [][NextParams]_vars

\* the cache operations, with the current model coming and going under status checks
CacheModelStatuses ==
  [thrown : {FALSE}, modelInfo : {None, Some(ModelA), Some(ModelANotLoaded)}]

CacheRoom == Len(pending.cache) < MaxCachePending

NextCache ==
  \/ pending.status < MaxPending /\ fetchCurrentModelStatus
  \/ \E result \in CacheModelStatuses : fetchCurrentModelStatusSettles(result)
  \/ \E filename \in Filenames : CacheRoom /\ saveCache(filename)
  \/ \E filename \in Filenames : CacheRoom /\ loadCache(filename)
  \/ \E numTokens \in TokenCounts : CacheRoom /\ trimCache(numTokens)
  \/ \E base \in FilenameBases : CacheRoom /\ handleSave(base)
  \/ \E base \in FilenameBases : CacheRoom /\ handleLoad(base)
  \/ \E n \in TrimTokenInputs : CacheRoom /\ handleTrim(n)
  \/ \E i \in 1 .. MaxCachePending + 1, outcome \in CacheOutcomes :
       performCacheOperationSettles(i, outcome)

SpecCache == Init /\ [][NextCache]_vars

\* every outstanding cache request eventually settles
SpecCacheFair ==
  /\ SpecCache
  /\ WF_vars(\E i \in 1 .. MaxCachePending + 1, outcome \in CacheOutcomes :
               performCacheOperationSettles(i, outcome))

\* the history under the push stream and the one-shot pull, the socket staying up
NextHistory ==
  \/ startStreamingMetrics(FALSE)
  \/ perf_onopen(1)
  \/ NextSample <= MaxSamples /\ perf_onmessage(1, PerfSample(NextSample))
  \/ pending.stats < MaxPending /\ fetchCurrentStats
  \/ NextSample <= MaxSamples /\ fetchCurrentStatsSettles(Some(NextSample))
  \/ fetchCurrentStatsSettles(None)

SpecHistory == Init /\ [][NextHistory]_vars

\* the performance stream under starts, stops, socket events and reconnect timers
PerfRoom == Len(historicalMetrics) < MaxPerfSamples

NextPerf ==
  \/ \E ctorThrows \in BOOLEAN :
       Len(performanceManagers) < MaxPerfManagers /\ startStreamingMetrics(ctorThrows)
  \/ stopStreamingMetrics
  \/ \E m \in 1 .. MaxPerfManagers + 1 : perf_onopen(m)
  \/ \E m \in 1 .. MaxPerfManagers + 1 :
       PerfRoom /\ perf_onmessage(m, PerfSample(NextSample))
  \/ \E m \in 1 .. MaxPerfManagers + 1, frame \in {PerfErrorFrame, PerfMalformed} :
       perf_onmessage(m, frame)
  \/ \E m \in 1 .. MaxPerfManagers + 1 : perf_onclose(m)
  \/ \E m \in 1 .. MaxPerfManagers + 1, ctorThrows \in BOOLEAN :
       perf_reconnectTimer(m, ctorThrows)

SpecPerf == Init /\ [][NextPerf]_vars

\* the health monitor next to the model store, whose errors share the global error; a
\* negative load result carries a text of the backend's choosing, which can be any
\* text, the health monitor's own included
HealthLoadResponses ==
  LoadResponses \cup
  { [thrown |-> FALSE, success |-> FALSE, message |-> HealthOfflineMsg, model_info |-> None] }

NextHealth ==
  \/ TotalPending < MaxModelPending /\ checkBackendHealth
  \/ \E response \in HealthResponses : checkBackendHealthSettles(response)
  \/ clearError
  \/ TotalPending < MaxModelPending /\ loadModel
  \/ \E result \in HealthLoadResponses : loadModelSettles(result)
  \/ TotalPending < MaxModelPending /\ unloadModel
  \/ \E result \in UnloadResponses : unloadModelSettles(result)

SpecHealth == Init /\ [][NextHealth]_vars

\* the request of a generation session: the parameter document changes between starts,
\* and as a Partial<GenerationParams> an update can carry a prompt or messages of its own
StalePrompt == [prompt |-> "Stale prompt"]
StaleMessages == [messages |-> <<[role |-> "user", content |-> "stale"]>>]
RequestParamUpdates == { StalePrompt, StaleMessages }

NextRequest ==
  \/ \E params \in RequestParamUpdates : updateGenerationParams(params)
  \/ \E payload \in Payloads :
       /\ StartRejection # NoError \/ Len(managers) < MaxSessions
       /\ startGenerationStream(payload, FALSE)
  \/ stopGenerationStream(ReasonUser)
  \/ \E s \in Sessions, sendThrows \in BOOLEAN : ws_onopen(s, sendThrows)
  \/ \E s \in Sessions, event \in CloseEvents : ws_onclose(s, event)
  \/ \E s \in Sessions : connectionTimeout(s)
  \/ \E d \in DeadlineSteps : Tick(d)

SpecRequest == InitLoaded /\ [][NextRequest]_vars

\* a generation session with status refreshes and loads arriving while it runs
NextRefresh ==
  \/ /\ StartRejection # NoError \/ Len(managers) < MaxAppSessions
     /\ startGenerationStream(MessagesPayload, FALSE)
  \/ \E s \in Sessions : ws_onopen(s, FALSE)
  \/ \E s \in Sessions, frame \in AppFrames :
       TotalReceived < MaxChunks /\ ws_onmessage(s, frame)
  \/ \E s \in Sessions, event \in CloseEvents : ws_onclose(s, event)
  \/ TotalPending < MaxPending /\ fetchCurrentModelStatus
  \/ \E result \in CacheModelStatuses : fetchCurrentModelStatusSettles(result)
  \/ TotalPending < MaxPending /\ loadModel
  \/ \E result \in LoadResponses : loadModelSettles(result)

SpecRefresh == InitLoaded /\ [][NextRefresh]_vars

\* the chat view: sessions started, stopped and finished in every way a session can
\* end (final chunk, error chunk, malformed frame, failed construction, failed send,
\* connect timeout, closure, stop, model change through a status refresh, a load or
\* an unload), with the "New Chat" button and the dismiss button of the error banner
\* pressed at any time
ChatFrames ==
  { Chunk(<<"H", "e">>, FALSE), Chunk(<<"l", "l", "o">>, TRUE), ErrorChunk, MalformedFrame }

NextChat ==
  \/ \E ctorThrows \in BOOLEAN :
       /\ StartRejection # NoError \/ Len(managers) < MaxSessions
       /\ startGenerationStream(MessagesPayload, ctorThrows)
  \/ stopGenerationStream(ReasonUser)
  \/ handleNewChat
  \/ clearError
  \/ \E s \in Sessions, sendThrows \in BOOLEAN : ws_onopen(s, sendThrows)
  \/ \E s \in Sessions, frame \in ChatFrames :
       TotalReceived < MaxChunks /\ ws_onmessage(s, frame)
  \/ \E s \in Sessions, event \in AllCloseEvents : ws_onclose(s, event)
  \/ \E s \in Sessions : connectionTimeout(s)
  \/ \E d \in DeadlineSteps : Tick(d)
  \/ TotalPending < MaxPending /\ fetchCurrentModelStatus
  \/ \E modelInfo \in {None, Some(ModelA), Some(ModelB)} :
       fetchCurrentModelStatusSettles([thrown |-> FALSE, modelInfo |-> modelInfo])
  \/ TotalPending < MaxPending /\ loadModel
  \/ \E result \in {[thrown |-> TRUE],
                    [thrown |-> FALSE, success |-> TRUE, message |-> NoError,
                     model_info |-> Some(ModelB)]} :
       loadModelSettles(result)
  \/ TotalPending < MaxPending /\ unloadModel
  \/ unloadModelSettles([thrown |-> FALSE, success |-> TRUE, message |-> NoError])

SpecChat == InitLoaded /\ [][NextChat]_vars

\* a load racing with status refreshes: the backend answers each request with its
\* state at that moment and the answers arrive in any order
NextRace ==
  \/ TotalPending < MaxModelPending /\ fetchCurrentModelStatus
  \/ TotalPending < MaxModelPending /\ loadModel
  \/ backendAnswersStatus
  \/ \E model \in {ModelA, ModelB} : backendAppliesLoad(model)
  \/ \E i \in 1 .. MaxModelPending + 1 : statusAnswerDelivered(i)
  \/ \E i \in 1 .. MaxModelPending + 1 : loadAnswerDelivered(i)

SpecRace == Init /\ [][NextRace]_vars

(* ------------------------------- claims -------------------------------- *)
\* a startGenerationStream call, whatever `new WebSocket` does
StartCall == \E ctorThrows \in BOOLEAN : startGenerationStream(MessagesPayload, ctorThrows)

\* C1: a startGenerationStream call made while isGenerating is true gives the caller's
\* onStreamError "Another generation is already in progress." before it returns, creates
\* no manager (no WebSocket), and leaves isGenerating, the accumulated output, the last
\* chunk and the existing stream (the reference and the manager with its socket) as
\* they were; while isGenerating is true no step at all creates a socket.
C1_RejectsWhileGenerating ==
  [][ isGenerating =>
        /\ Len(managers') = Len(managers)
        /\ StartCall =>
             /\ startError' = ErrBusy
             /\ UNCHANGED << isGenerating, currentOutputStream, lastChunk,
                             streamManager, managers, lastError >> ]_vars

\* a call was rejected as busy while a session with text received is streaming
C1_Witness ==
  /\ isGenerating
  /\ startError = ErrBusy
  /\ currentOutputStream # << >>
  /\ streamManager # NoManager
  /\ managers[streamManager].readyState = OPEN

\* the generation sockets that are CONNECTING or OPEN
LiveSockets == { s \in Sessions : managers[s].readyState \in {CONNECTING, OPEN} }

\* C2: in every reachable state at most one generation WebSocket created by the
\* controller is in the CONNECTING or OPEN state.
C2_AtMostOneLiveSocket == Cardinality(LiveSockets) <= 1

\* the current model's id or adapter_path changes in this step
ModelChanged ==
  IdOf(currentModel') # IdOf(currentModel) \/ AdapterOf(currentModel') # AdapterOf(currentModel)

\* the client closed manager m's socket with code 1000 and reason "Model changed"
StoppedForModelChange(m) ==
  \E i \in 1 .. Len(m.closeCalls) : m.closeCalls[i] = <<NormalClosure, ReasonModelChanged>>

\* C3: when the current model's id or adapter_path changes (by load, unload or status
\* refresh) while a generation session is active (isGenerating), the same step stops
\* the session (isGenerating false, stream reference null, the socket closed by the
\* client with code 1000 and reason "Model changed"), clears the accumulated output and
\* the last chunk, and accepts no start; and a session stopped for a model change
\* receives no chunk and forwards no text afterwards.
C3_ModelChangeStopsSession ==
  [][ /\ isGenerating /\ ModelChanged =>
           /\ streamManager # NoManager
           /\ ~isGenerating'
           /\ streamManager' = NoManager
           /\ managers'[streamManager].explicitlyClosed
           /\ managers'[streamManager].readyState = CLOSING
           /\ managers'[streamManager].closeCalls =
                Append(managers[streamManager].closeCalls, <<NormalClosure, ReasonModelChanged>>)
           /\ currentOutputStream' = << >>
           /\ lastChunk' = None
           /\ Len(managers') = Len(managers)
      /\ \A s \in Sessions :
           StoppedForModelChange(managers[s]) =>
             /\ managers'[s].received = managers[s].received
             /\ managers'[s].onTokenUpdate = managers[s].onTokenUpdate ]_vars

\* a session that had forwarded text was stopped for a model change, its socket has
\* closed since, and the accumulated output is empty under the new model
C3_Witness ==
  \E s \in Sessions :
    /\ StoppedForModelChange(managers[s])
    /\ managers[s].onTokenUpdate # << >>
    /\ managers[s].closeEventFired
    /\ currentModel # None
    /\ currentOutputStream = << >>
    /\ lastChunk = None

\* C4: a startGenerationStream call made when no model is loaded, or when backendStatus
\* is "checking" or "offline", gives the caller's onStreamError a message and changes
\* nothing: isGenerating, the accumulated output, the last chunk, the global error, the
\* stream reference and the managers are as before, and no WebSocket is created.
C4_RejectsWithoutModelOrBackend ==
  [][ currentModel = None \/ backendStatus # "online" =>
        /\ Len(managers') = Len(managers)
        /\ StartCall =>
             /\ startError' \in {ErrBusy, ErrNoModel, ErrOffline}
             /\ UNCHANGED << isGenerating, currentOutputStream, lastChunk, lastError,
                             streamManager, managers >> ]_vars

\* a call was rejected for the backend being offline, with a model loaded and a
\* global error standing
C4_Witness ==
  /\ startError = ErrOffline
  /\ backendStatus = "offline"
  /\ currentModel # None
  /\ ~isGenerating
  /\ lastError # NoError

\* C5: while a model load or unload is in flight (isModelLoading) no step opens a
\* generation stream.
C5_NoStreamWhileModelLoading ==
  [][ isModelLoading => Len(managers') = Len(managers) ]_vars

\* the texts of the token chunks (parsed, without error field) among the messages received
IsTokenChunk(frame) == frame.json /\ frame.error = NoError
RECURSIVE TokenTexts(_)
TokenTexts(received) ==
  IF received = << >> THEN << >>
  ELSE IF IsTokenChunk(Head(received))
       THEN <<Head(received).text>> \o TokenTexts(Tail(received))
       ELSE TokenTexts(Tail(received))
RECURSIVE Flatten(_)
Flatten(texts) == IF texts = << >> THEN << >> ELSE Head(texts) \o Flatten(Tail(texts))

\* C6: while a session is the controller's current one, the accumulated output is the
\* concatenation, in arrival order, of the texts of the token chunks that session has
\* received since its start, and the token callback has been given exactly those texts,
\* one call per chunk, in that order.
C6_OutputIsSessionText ==
  streamManager # NoManager =>
    LET texts == TokenTexts(managers[streamManager].received)
    IN  /\ currentOutputStream = Flatten(texts)
        /\ managers[streamManager].onTokenUpdate = texts

\* C7: the step that delivers a chunk with is_finished to a session calls its
\* completion callback for the first and only time and leaves isGenerating false; from
\* then on no step (a close event with code 1000 or 1006 included) calls the session's
\* token, completion or error callback. The socket stays open after the finishing
\* chunk, and a frame that arrives on it then is handled like any other.
C7_FinishedSessionIsSilent ==
  [][ \A s \in Sessions :
        /\ ~GotFinished(managers[s]) /\ GotFinished(managers'[s]) =>
             /\ managers[s].onStreamComplete = 0
             /\ managers'[s].onStreamComplete = 1
             /\ ~isGenerating'
        /\ GotFinished(managers[s]) =>
             /\ managers'[s].onStreamComplete = 1
             /\ managers'[s].onTokenUpdate = managers[s].onTokenUpdate
             /\ managers'[s].onStreamError = managers[s].onStreamError ]_vars

\* a chunk with an error field has been delivered to manager m
GotError(m) == \E i \in 1 .. Len(m.received) :
                 m.received[i].json /\ m.received[i].error # NoError

\* C8: the step that delivers a chunk carrying an error field to a session gives the
\* error to its error callback and sets the global error, leaves isGenerating false,
\* has the client close the socket (close(1000, "Error received from backend"), socket
\* CLOSING), and neither appends the chunk's text to the accumulated output nor forwards
\* it to the token callback; the session receives no chunk afterwards.
C8_ErrorChunkTearsDown ==
  [][ \A s \in Sessions :
        /\ ~GotError(managers[s]) /\ GotError(managers'[s]) =>
             LET chunk == managers'[s].received[Len(managers'[s].received)]
             IN  /\ managers'[s].onStreamError =
                      Append(managers[s].onStreamError, StreamError(chunk.error))
                 /\ lastError' = GenerationError(chunk.error)
                 /\ ~isGenerating'
                 /\ managers'[s].readyState = CLOSING
                 /\ managers'[s].closeCalls =
                      Append(managers[s].closeCalls, <<NormalClosure, ReasonBackendError>>)
                 /\ managers'[s].onTokenUpdate = managers[s].onTokenUpdate
                 /\ managers'[s].onStreamComplete = managers[s].onStreamComplete
                 /\ UNCHANGED << currentOutputStream, lastChunk >>
        /\ GotError(managers[s]) =>
             /\ managers'[s].received = managers[s].received
             /\ managers'[s].onTokenUpdate = managers[s].onTokenUpdate ]_vars

\* a session got "He" and then an error chunk with text "llo"; the output is "He" and
\* the socket has closed since
C8_Witness ==
  \E s \in Sessions :
    /\ managers[s].received = <<Chunk(<<"H", "e">>, FALSE), ErrorChunk>>
    /\ managers[s].onTokenUpdate = << <<"H", "e">> >>
    /\ currentOutputStream = <<"H", "e">>
    /\ managers[s].closeEventFired
    /\ ~isGenerating

\* the error callback of the session is given msg in this step (m before, n after)
Reports(m, n, msg) ==
  /\ Len(n.onStreamError) = Len(m.onStreamError) + 1
  /\ n.onStreamError[Len(n.onStreamError)] = StreamError(msg)
ReportsTimeout(m, n) == Reports(m, n, ErrTimedOut)

\* C9: the connect timer of a session reports only when 10 time units have elapsed
\* since start with the socket still CONNECTING and the session not stopped: then the
\* error callback gets "WebSocket connection timed out.", isGenerating is false and the
\* client closes the socket (close(), socket CLOSING). Once the socket has opened,
\* errored, closed or been stopped no timer is pending, so no timeout is reported
\* later; and when the 10 units have elapsed the session's next event is the timeout
\* report, unless the socket opens (the send may fail then) or closes or the session
\* is stopped first.
C9_ConnectTimeout ==
  [][ \A s \in Sessions :
        LET m == managers[s]
            n == managers'[s]
        IN  /\ n.connectionTimeout <= ConnectTimeoutUnits
            /\ n.readyState # CONNECTING \/ n.explicitlyClosed => n.connectionTimeout = NoTimer
            /\ ReportsTimeout(m, n) =>
                 /\ m.connectionTimeout = ConnectTimeoutUnits
                 /\ m.readyState = CONNECTING
                 /\ ~m.explicitlyClosed
                 /\ n.readyState = CLOSING
                 /\ n.closeCalls = Append(m.closeCalls, <<NoCode, NoReason>>)
                 /\ ~isGenerating'
            /\ m.connectionTimeout = ConnectTimeoutUnits /\ n # m =>
                 /\ n.connectionTimeout = NoTimer
                 /\ \/ ReportsTimeout(m, n)
                    \/ n.readyState = OPEN
                    \/ Reports(m, n, ErrSend)
                    \/ n.readyState = CLOSED
                    \/ n.explicitlyClosed ]_vars

\* one session has timed out and was closed by the client; another has opened in time,
\* with no timer pending
C9_Witness ==
  \E s, r \in Sessions :
    /\ managers[s].onStreamError = <<StreamError(ErrTimedOut)>>
    /\ managers[s].readyState = CLOSING
    /\ managers[s].closeCalls = << <<NoCode, NoReason>> >>
    /\ managers[r].readyState = OPEN
    /\ managers[r].connectionTimeout = NoTimer
    /\ managers[r].onStreamError = << >>

\* C10: a session that was not stopped and received no completion or error chunk gives
\* its error callback at most one error, over its connect-timeout, send-failure and
\* close events together.
C10_TransportErrorOnce ==
  \A s \in Sessions :
    ~managers[s].receivedFinalChunk /\ ~managers[s].explicitlyClosed =>
      Len(managers[s].onStreamError) <= 1

\* C11: when the socket of a session that was not stopped (explicitlyClosed false) and
\* has received no final chunk (neither is_finished nor error) closes with code 1000,
\* that step calls the session's completion callback for the first and only time,
\* calls no error or token callback, and leaves isGenerating false; the close event
\* fires once per socket, so the completion is not repeated.
C11_NormalClosureCompletes ==
  [][ \A s \in Sessions :
        /\ ~managers[s].explicitlyClosed
        /\ ~managers[s].receivedFinalChunk
        /\ ws_onclose(s, NormalClose)
        => /\ managers[s].onStreamComplete = 0
           /\ managers'[s].onStreamComplete = 1
           /\ managers'[s].onStreamError = managers[s].onStreamError
           /\ managers'[s].onTokenUpdate = managers[s].onTokenUpdate
           /\ managers'[s].closeEventFired
           /\ ~isGenerating' ]_vars

\* a session that got text but no final chunk and was never stopped has closed and
\* completed once without any error
C11_Witness ==
  \E s \in Sessions :
    /\ managers[s].closeEventFired
    /\ ~managers[s].explicitlyClosed
    /\ ~managers[s].receivedFinalChunk
    /\ managers[s].onTokenUpdate # << >>
    /\ managers[s].onStreamComplete = 1
    /\ managers[s].onStreamError = << >>
    /\ ~isGenerating

\* the close frames with code 1000 the client sent on manager m's socket
NormalCloseFrames(m) == { i \in 1 .. Len(m.closeCalls) : m.closeCalls[i][1] = NormalClosure }

\* C12: in every reachable state, stopGenerationStream leaves isGenerating false and the
\* stream reference null; a second call right after it changes nothing more (no second
\* close frame either); a call on an idle controller changes nothing at all; and no
\* session's socket is ever sent more than one close frame with code 1000.
C12_StopIsIdempotent ==
  LET once == stopStream(Store, ReasonUser)
      twice == stopStream(once, ReasonUser)
  IN  /\ ~once.isGenerating
      /\ once.streamManager = NoManager
      /\ twice = once
      /\ ~isGenerating /\ streamManager = NoManager => once = Store
      /\ \A s \in Sessions : Cardinality(NormalCloseFrames(once.managers[s])) <= 1

\* a session was stopped by the caller while its socket was open, the controller is
\* idle, and the socket has not closed yet (a second stop can follow)
C12_Witness ==
  \E s \in Sessions :
    /\ managers[s].closeCalls = << <<NormalClosure, ReasonUser>> >>
    /\ managers[s].explicitlyClosed
    /\ managers[s].readyState = CLOSING
    /\ managers[s].sent # << >>
    /\ ~isGenerating
    /\ streamManager = NoManager

\* C13: once a session has been stopped (explicitlyClosed: stopGenerationStream, a model
\* change, or the manager's own teardown), no step calls its token, completion or error
\* callback, and an event of that session (a step that changes its manager) leaves
\* isGenerating, the accumulated output and the stream reference as they were.
C13_StaleEventsDiscarded ==
  [][ \A s \in Sessions :
        managers[s].explicitlyClosed =>
          /\ managers'[s].onTokenUpdate = managers[s].onTokenUpdate
          /\ managers'[s].onStreamComplete = managers[s].onStreamComplete
          /\ managers'[s].onStreamError = managers[s].onStreamError
          /\ managers'[s] # managers[s] =>
               UNCHANGED << isGenerating, currentOutputStream, streamManager >> ]_vars

\* C14: under any interleaving of loadModel, unloadModel, fetchLocalModelsList and
\* fetchCurrentModelStatus calls and their responses, at most one load or unload request
\* is awaiting its response.
C14_LoadUnloadSingleFlight == pending.load + Len(pending.unload) <= 1

\* C15: when the response of a load request arrives: a success response carrying
\* model_info makes that descriptor the current model; a negative result (success false,
\* or no model_info) sets the global error (the backend's message, or the default one)
\* and leaves the current model exactly as it was; a thrown error sets the global error
\* and clears the current model to null.
C15_LoadOutcomes ==
  [][ \A result \in LoadResponses :
        loadModelSettles(result) =>
          IF result.thrown
          THEN lastError' = ErrLoadThrown /\ currentModel' = None
          ELSE IF result.success /\ result.model_info # None
          THEN currentModel' = result.model_info /\ lastError' = lastError
          ELSE /\ lastError' = (IF result.message # NoError THEN result.message
                                ELSE ErrLoadDefault(LoadIdentifier))
               /\ currentModel' = currentModel ]_vars

\* a load has failed with the backend's message while another model stayed loaded
C15_Witness ==
  /\ currentModel = Some(ModelALora)
  /\ lastError = BackendMessage
  /\ ~isModelLoading
  /\ pending.load = 0

\* the model store and the global error exactly as they were, and no request issued
ModelStoreUntouched ==
  UNCHANGED << currentModel, isModelLoading, availableModels, lastError, pending >>

\* C16: an unloadModel call made when no model is loaded, or while a load or unload request
\* is in flight, issues no request and changes nothing; when the response of an unload
\* request arrives, a success response clears the current model, and a negative result or
\* a thrown error leaves the current model untouched and sets the global error.
C16_UnloadOutcomes ==
  [][ /\ unloadModel =>
           (currentModel = None \/ pending.load + Len(pending.unload) > 0 => ModelStoreUntouched)
      /\ \A result \in UnloadResponses :
           unloadModelSettles(result) =>
             IF result.thrown
             THEN currentModel' = currentModel /\ lastError' = ErrUnloadThrown
             ELSE IF result.success
             THEN currentModel' = None /\ lastError' = lastError
             ELSE /\ currentModel' = currentModel
                  /\ IF result.message # NoError THEN lastError' = result.message
                     ELSE \E i \in 1 .. Len(pending.unload) :
                            lastError' = ErrUnloadDefault(pending.unload[i]) ]_vars

\* C17 as stated: a fetchCurrentModelStatus call always issues its request and leaves the
\* in-flight flag alone; when its response arrives, any descriptor the backend sent becomes
\* the current model, a null response clears it, a thrown error clears it and sets the
\* global error, and the in-flight flag is unchanged.
C17_StatusReplacesWithAnyDescriptor ==
  [][ /\ fetchCurrentModelStatus =>
           pending'.status = pending.status + 1 /\ isModelLoading' = isModelLoading
      /\ \A result \in StatusResponses :
           fetchCurrentModelStatusSettles(result) =>
             /\ isModelLoading' = isModelLoading
             /\ IF result.thrown
                THEN currentModel' = None /\ lastError' = ErrStatusThrown
                ELSE IF result.modelInfo # None
                THEN currentModel' = result.modelInfo /\ lastError' = lastError
                ELSE currentModel' = None /\ lastError' = lastError ]_vars

\* C17: a fetchCurrentModelStatus call always issues its request and leaves the in-flight
\* flag alone; when its response arrives, a descriptor with a non-empty id becomes the
\* current model, a null response or a descriptor without an id clears it, a thrown error
\* clears it and sets the global error, and the in-flight flag is unchanged.
C17_StatusOutcomes ==
  [][ /\ fetchCurrentModelStatus =>
           pending'.status = pending.status + 1 /\ isModelLoading' = isModelLoading
      /\ \A result \in StatusResponses :
           fetchCurrentModelStatusSettles(result) =>
             /\ isModelLoading' = isModelLoading
             /\ IF result.thrown
                THEN currentModel' = None /\ lastError' = ErrStatusThrown
                ELSE IF result.modelInfo # None /\ result.modelInfo[1].id # ""
                THEN currentModel' = result.modelInfo /\ lastError' = lastError
                ELSE currentModel' = None /\ lastError' = lastError ]_vars

\* a status check has failed while a load request was in flight, and the flag is still set
C17_Witness ==
  /\ lastError = ErrStatusThrown
  /\ currentModel = None
  /\ isModelLoading
  /\ pending.load = 1
  /\ pending.status = 0

\* C18: a fetchLocalModelsList call made while the in-flight flag is set and the catalog
\* is non-empty issues no request and changes nothing, and any other call (one with an
\* empty catalog included, flag set or not) issues a request; when the response arrives,
\* the backend's list becomes the catalog, and a failure empties the catalog and sets the
\* failure reason as the global error.
C18_ListOutcomes ==
  [][ /\ fetchLocalModelsList =>
           IF isModelLoading /\ Len(availableModels) > 0
           THEN UNCHANGED << currentModel, isModelLoading, availableModels, lastError, pending >>
           ELSE pending'.list = pending.list + 1 /\ isModelLoading'
      /\ \A result \in ListResponses :
           fetchLocalModelsListSettles(result) =>
             IF result.thrown
             THEN availableModels' = << >> /\ lastError' = ErrListThrown
             ELSE availableModels' = result.models /\ lastError' = lastError ]_vars

\* two list requests are in flight: one was issued with an empty catalog while the flag
\* was set
C18_Witness ==
  /\ pending.list = 2
  /\ isModelLoading
  /\ availableModels = << >>

\* C19: updateGenerationParams deep-merges kv_cache_options: after every update, each
\* kv_cache_options key present in the update holds the update's value and every other
\* existing key keeps its value ({bits: 4} over {group_size: 64, quantized_kv_start: 5000}
\* gives {bits: 4, group_size: 64, quantized_kv_start: 5000}); every top-level field the
\* update does not name is unchanged and every named non-object field holds the
\* update's value.
C19_KvCacheOptionsDeepMerged ==
  [][ /\ UpdatedParams(
            [kv_cache_options |-> [group_size |-> Some(64), quantized_kv_start |-> Some(5000)]],
            [kv_cache_options |-> [bits |-> Some(4)]]).kv_cache_options
          = [bits |-> Some(4), group_size |-> Some(64), quantized_kv_start |-> Some(5000)]
      /\ \A params \in ParamUpdates :
           updateGenerationParams(params) =>
             LET old == generationParams
                 new == generationParams'
             IN  /\ DOMAIN new = DOMAIN old \cup DOMAIN params
                 /\ \A k \in DOMAIN old \ DOMAIN params : new[k] = old[k]
                 /\ \A k \in DOMAIN params \ {"kv_cache_options", "logit_bias"} :
                      new[k] = params[k]
                 /\ "kv_cache_options" \in DOMAIN params =>
                      LET update == params.kv_cache_options
                      IN  /\ DOMAIN new.kv_cache_options
                               = DOMAIN old.kv_cache_options \cup DOMAIN update
                          /\ \A k \in DOMAIN update : new.kv_cache_options[k] = update[k]
                          /\ \A k \in DOMAIN old.kv_cache_options \ DOMAIN update :
                               new.kv_cache_options[k] = old.kv_cache_options[k] ]_vars

\* bits has been set to 4 and max_tokens to 256 while the other cache options kept their
\* default values
C19_Witness ==
  /\ generationParams.kv_cache_options =
       [bits |-> Some(4), group_size |-> Some(64),
        quantized_kv_start |-> Some(5000), max_size |-> None]
  /\ generationParams.max_tokens = 256

\* C20 as stated: after updateGenerationParams({logit_bias: M}) the stored logit_bias map
\* holds every token key it held before that M does not name, with its previous offset,
\* plus the entries of M.
C20_LogitBiasDeepMerged ==
  [][ \A params \in ParamUpdates :
        updateGenerationParams(params) /\ "logit_bias" \in DOMAIN params =>
          LET old == generationParams.logit_bias
              new == generationParams'.logit_bias
              M == params.logit_bias
          IN  /\ DOMAIN new = DOMAIN old \cup DOMAIN M
              /\ \A k \in DOMAIN M : new[k] = M[k]
              /\ \A k \in DOMAIN old \ DOMAIN M : new[k] = old[k] ]_vars

\* C20: after updateGenerationParams({logit_bias: M}) the stored logit_bias map is exactly
\* M: it holds the entries of M and no token key that M does not name.
C20_LogitBiasReplaced ==
  [][ \A params \in ParamUpdates :
        updateGenerationParams(params) /\ "logit_bias" \in DOMAIN params =>
          LET new == generationParams'.logit_bias
              M == params.logit_bias
          IN  /\ DOMAIN new = DOMAIN M
              /\ \A k \in DOMAIN M : new[k] = M[k] ]_vars

\* the stored map holds token 2 alone, while the cache options show an earlier update
C20_Witness ==
  /\ DOMAIN generationParams.logit_bias = {"2"}
  /\ generationParams.logit_bias["2"] = -5
  /\ generationParams.kv_cache_options.bits = Some(8)

\* C21: resetGenerationParams restores the fixed default document (kv_cache_options back
\* to {bits unset, group_size 64, quantized_kv_start 5000, max_size unset}, logit_bias
\* empty) after any sequence of updates, and the kv_cache_options object the document
\* then holds is not shared with any other holder: it is not the nested object of the
\* default document itself.
C21_ResetRestoresUnsharedDefaults ==
  [][ resetGenerationParams =>
        /\ generationParams' = DEFAULT_GENERATION_PARAMS
        /\ generationParams'.kv_cache_options =
             [bits |-> None, group_size |-> Some(64),
              quantized_kv_start |-> Some(5000), max_size |-> None]
        /\ DOMAIN generationParams'.logit_bias = {}
        /\ kvCacheOptionsObject' # DefaultKvCacheOptionsObject ]_vars

\* a call of one of the store's three cache operations
CacheCall ==
  \/ \E filename \in Filenames : saveCache(filename)
  \/ \E filename \in Filenames : loadCache(filename)
  \/ \E numTokens \in TokenCounts : trimCache(numTokens)

\* C22: under any interleaving of saveCache, loadCache and trimCache calls and responses,
\* at most one cache request is outstanding, and a call made while one is outstanding
\* issues no request and leaves the status slot as it was.
C22_CacheSingleFlight ==
  [][ /\ Len(pending'.cache) <= 1
      /\ CacheCall /\ pending.cache # << >> =>
           UNCHANGED << pending, cacheOperationStatus >> ]_vars

\* a trim request is outstanding and the slot shows it in progress
C22_Witness ==
  /\ Len(pending.cache) = 1
  /\ pending.cache[1].operation = "trim"
  /\ cacheOperationStatus = CacheStatus(Performing("trim"), "info", TRUE, None)

\* C23: a cache operation that is admitted (no operation in progress, a model loaded) puts
\* the slot in progress (isLoading true, kind info) and issues exactly one request; when
\* the request settles the slot has isLoading false and either kind success with the
\* reported cache_size, or kind error with a message that is also the global error; and
\* a slot that is in progress always leaves that state.
C23_CacheOperationLifecycle ==
  /\ [][ /\ CacheCall /\ ~cacheOperationStatus.isLoading /\ currentModel # None =>
              /\ cacheOperationStatus'.isLoading
              /\ cacheOperationStatus'.type = "info"
              /\ Len(pending'.cache) = Len(pending.cache) + 1
         /\ \A i \in 1 .. MaxCachePending + 1, outcome \in CacheOutcomes :
              performCacheOperationSettles(i, outcome) =>
                /\ ~cacheOperationStatus'.isLoading
                /\ Len(pending'.cache) = Len(pending.cache) - 1
                /\ IF ~outcome.thrown /\ outcome.ok /\ outcome.data.success
                   THEN /\ cacheOperationStatus'.type = "success"
                        /\ cacheOperationStatus'.cache_size = outcome.data.cache_size
                        /\ lastError' = lastError
                   ELSE /\ cacheOperationStatus'.type = "error"
                        /\ cacheOperationStatus'.message # << >>
                        /\ lastError' = cacheOperationStatus'.message ]_vars
  /\ (cacheOperationStatus.isLoading ~> ~cacheOperationStatus.isLoading)

\* an operation has ended in an error that both the slot and the global error show
C23_Witness ==
  /\ cacheOperationStatus = CacheStatus(HttpErrorCache("save"), "error", FALSE, None)
  /\ lastError = HttpErrorCache("save")
  /\ pending.cache = << >>

\* a call that issued no request and left the slot with the no-model validation error
RejectedForNoModel ==
  /\ pending' = pending
  /\ ~cacheOperationStatus'.isLoading
  /\ cacheOperationStatus'.type = "error"
  /\ cacheOperationStatus'.message = CacheNoModelMessage

\* a call that issued no request and left the slot as it was
CacheCallIgnored ==
  /\ pending' = pending
  /\ cacheOperationStatus' = cacheOperationStatus

\* C24 as stated: whenever no model is loaded, a save, load or trim call issues no
\* request, does not set isLoading, and leaves the slot with kind error and the
\* validation message.
C24_NoModelAlwaysRejectedWithError ==
  currentModel = None =>
    /\ \A filename \in Filenames : ENABLED (saveCache(filename) /\ RejectedForNoModel)
    /\ \A filename \in Filenames : ENABLED (loadCache(filename) /\ RejectedForNoModel)
    /\ \A numTokens \in TokenCounts : ENABLED (trimCache(numTokens) /\ RejectedForNoModel)

\* C24: whenever no model is loaded and no cache operation is in progress, a save, load
\* or trim call issues no request, does not set isLoading, and leaves the slot with kind
\* error and the validation message; while an operation is in progress the call issues
\* no request either, and leaves the slot in progress as it was.
C24_NoModelRejected ==
  currentModel = None =>
    IF cacheOperationStatus.isLoading
    THEN /\ \A filename \in Filenames : ENABLED (saveCache(filename) /\ CacheCallIgnored)
         /\ \A filename \in Filenames : ENABLED (loadCache(filename) /\ CacheCallIgnored)
         /\ \A numTokens \in TokenCounts : ENABLED (trimCache(numTokens) /\ CacheCallIgnored)
    ELSE /\ \A filename \in Filenames : ENABLED (saveCache(filename) /\ RejectedForNoModel)
         /\ \A filename \in Filenames : ENABLED (loadCache(filename) /\ RejectedForNoModel)
         /\ \A numTokens \in TokenCounts :
              ENABLED (trimCache(numTokens) /\ RejectedForNoModel)

\* a call without a model has been rejected with the validation message
C24_Witness ==
  /\ currentModel = None
  /\ cacheOperationStatus = CacheStatus(CacheNoModelMessage, "error", FALSE, None)
  /\ lastError = ErrCacheNoModel
  /\ pending.cache = << >>

\* C25: in the panel, a trim with a token count below 1, and a save or a load with an
\* empty (or blank) filename, issue no request, put the validation message in the status
\* slot with kind error, and leave the global error as it was.
C25_PanelValidation ==
  [][ /\ \A n \in TrimTokenInputs :
           handleTrim(n) /\ n < 1 =>
             /\ pending' = pending
             /\ cacheOperationStatus' = CacheStatus(ErrTrimTooFew, "error", FALSE, None)
             /\ lastError' = lastError
      /\ \A base \in FilenameBases :
           (handleSave(base) \/ handleLoad(base)) /\ trim(base) = << >> =>
             /\ pending' = pending
             /\ cacheOperationStatus' = CacheStatus(ErrFilenameEmpty, "error", FALSE, None)
             /\ lastError' = lastError ]_vars

\* a trim of too few tokens has been rejected in the panel, with the global error of an
\* earlier failure still standing
C25_Witness ==
  /\ cacheOperationStatus = CacheStatus(ErrTrimTooFew, "error", FALSE, None)
  /\ lastError = ErrCacheFetch
  /\ pending.cache = << >>

\* the number of samples that have arrived so far, from the stream and the pull
ArrivedSamples == IF currentMetrics = None THEN 0 ELSE currentMetrics[1]

\* C26: the performance history never holds more than 120 samples, and after n samples
\* have arrived from the push stream and the one-shot pull it holds exactly the most
\* recent min(n, 120) of them in their order of arrival, the oldest first
C26_HistoryBoundedFifo ==
  LET n == ArrivedSamples
      kept == IF n < maxHistory THEN n ELSE maxHistory
  IN  /\ Len(historicalMetrics) <= maxHistory
      /\ Len(historicalMetrics) = kept
      /\ \A i \in 1 .. Len(historicalMetrics) : historicalMetrics[i] = n - kept + i

\* 130 samples have arrived and the history holds the last 120, 11 to 130
C26_Witness ==
  /\ ArrivedSamples = 130
  /\ Len(historicalMetrics) = 120
  /\ historicalMetrics[1] = 11
  /\ historicalMetrics[120] = 130

\* the managers created so far, and whether one still has a socket or a timer
PerfManagers == 1 .. Len(performanceManagers)

PerfSocketLive(m) == performanceManagers[m].readyState \in {CONNECTING, OPEN}

PerfLive(m) == PerfSocketLive(m) \/ performanceManagers[m].timerPending

\* the connection failures of a manager since its socket last opened
PerfFailures(m) ==
  performanceManagers[m].closuresSinceOpen
    + performanceManagers[m].constructionFailuresSinceOpen

\* C27 as stated: once the performance socket has closed unexpectedly 5 times in a row
\* with no open in between, no reconnect is scheduled any more and the terminal error
\* has been reported exactly once; no more than 5 reconnect attempts are made
C27_TerminalAfterFiveClosures ==
  \A m \in PerfManagers :
    /\ performanceManagers[m].reconnectAttempts <= 5
    /\ performanceManagers[m].closuresSinceOpen >= 5
         => /\ ~PerfLive(m)
            /\ performanceManagers[m].terminalErrors = 1

\* C27 amended: each of the first 5 consecutive connection failures schedules a
\* reconnect, so that after the 5th the 5th attempt is still made; the 6th failure in
\* a row schedules nothing and reports the terminal error, which is reported at most
\* once; no more than 5 reconnect attempts are made
C27_TerminalAfterSixthFailure ==
  \A m \in PerfManagers :
    LET mgr == performanceManagers[m]
    IN  /\ mgr.reconnectAttempts <= 5
        /\ mgr.terminalErrors <= 1
        /\ PerfFailures(m) <= 6
        /\ PerfFailures(m) <= 5
             => /\ mgr.terminalErrors = 0
                /\ mgr.reconnectAttempts = PerfFailures(m)
        /\ PerfFailures(m) = 6
             => /\ mgr.terminalErrors = 1
                /\ mgr.reconnectAttempts = 5
                /\ ~PerfLive(m)

\* a socket closed unexpectedly 6 times in a row and the terminal error was reported
C27_Witness ==
  \E m \in PerfManagers :
    /\ performanceManagers[m].closuresSinceOpen = 6
    /\ performanceManagers[m].terminalErrors = 1
    /\ ~PerfLive(m)

\* C28: the delay of the reconnect timer set after the n-th connection failure in a row
\* is min(3 * 2^(n-1), 30) time units, 3, 6, 12, 24, 30 for n = 1..5; it is never more
\* than 30 and within a run of failures it never decreases
C28_BackoffDelays ==
  /\ [](\A m \in PerfManagers :
          performanceManagers[m].timerPending
            => /\ performanceManagers[m].reconnectTimeoutId
                    = << 3, 6, 12, 24, 30 >>[PerfFailures(m)]
               /\ performanceManagers[m].reconnectTimeoutId <= 30)
  /\ [][\A m \in PerfManagers :
          /\ performanceManagers[m].reconnectAttempts >= 1
          /\ performanceManagers'[m].reconnectAttempts
                = performanceManagers[m].reconnectAttempts + 1
          => performanceManagers'[m].reconnectTimeoutId
               >= performanceManagers[m].reconnectTimeoutId]_vars

\* the 5th reconnect in a row is scheduled 30 time units ahead
C28_Witness ==
  \E m \in PerfManagers :
    /\ performanceManagers[m].timerPending
    /\ performanceManagers[m].reconnectAttempts = 5
    /\ performanceManagers[m].reconnectTimeoutId = 30

\* C29: whenever a performance stream has been started, calling stopStreamingMetrics
\* leaves no manager with a pending reconnect timer or a connecting or open socket, so
\* that no socket is opened and no reconnect timer fires until the next start
C29_StopSuppressesReconnects ==
  PerfManagers # {}
    => ~ENABLED (stopStreamingMetrics /\ \E m \in PerfManagers :
                   \/ performanceManagers'[m].timerPending
                   \/ performanceManagers'[m].readyState \in {CONNECTING, OPEN})

\* C30: at most one performance stream manager is live, with a connecting or open
\* socket or a pending reconnect timer
C30_AtMostOneLiveManager ==
  Cardinality({m \in PerfManagers : PerfLive(m)}) <= 1


\* C31: on an open performance socket a well-formed message with a timestamp becomes
\* the current sample and the last element of the history; a malformed message changes
\* nothing: not the current sample, the history, isStreaming, the store's manager, the
\* socket or the global error, so that later samples are applied as before
C31_MalformedFrameDropped ==
  \A m \in PerfManagers :
    performanceManagers[m].readyState = OPEN
      => /\ ~ENABLED (/\ perf_onmessage(m, PerfMalformed)
                      /\ \/ perfVars' # perfVars
                         \/ lastError' # lastError
                         \/ startError' # NoError)
         /\ ~ENABLED (/\ perf_onmessage(m, PerfSample(NextSample))
                      /\ \/ currentMetrics' # Some(NextSample)
                         \/ Len(historicalMetrics) < maxHistory
                              /\ historicalMetrics' # Append(historicalMetrics, NextSample)
                         \/ isStreaming' # isStreaming
                         \/ performanceManagers' # performanceManagers)

\* a sample was applied on a stream that is still up: the socket is open, the store
\* streams, and malformed frames can arrive
C31_Witness ==
  \E m \in PerfManagers :
    /\ performanceManagers[m].readyState = OPEN
    /\ performanceStreamManager = m
    /\ isStreaming
    /\ currentMetrics = Some(1)
    /\ historicalMetrics = << 1 >>
    /\ ENABLED perf_onmessage(m, PerfMalformed)


\* a health check completes in this step
HealthCheckCompletes == pending'.health = pending.health - 1

\* C32: when a health check completes unhealthy and moves the backend status into
\* offline, the global error becomes the fixed offline message
C32_OfflineSetsFixedError ==
  [][HealthCheckCompletes /\ backendStatus # "offline" /\ backendStatus' = "offline"
       => lastError' = HealthOfflineMsg]_vars

\* C33: when a health check completes healthy, the global error is cleared if it is the
\* fixed offline message, and any other global error is left as it was
C33_HealthyClearsOnlyOfflineError ==
  [][HealthCheckCompletes /\ backendStatus' = "online"
       => lastError' = IF lastError = HealthOfflineMsg THEN NoError ELSE lastError]_vars

\* the fixed offline message is shown and a health check that completes healthy
\* clears it
C33_Witness ==
  /\ lastError = HealthOfflineMsg
  /\ ENABLED (/\ checkBackendHealthSettles([thrown |-> FALSE, ok |-> TRUE, status |-> "ok"])
              /\ lastError' = NoError
              /\ backendStatus' = "online")


\* C34 as stated: every session whose socket has opened has sent exactly one request
\* message, its own, and a session whose socket has not opened has sent none.
C34_ExactlyOneRequestOnOpen ==
  \A s \in Sessions :
    /\ ~managers[s].established => managers[s].sent = << >>
    /\ managers[s].established => managers[s].sent = << managers[s].request >>

\* C34: a session's request is sent once, in the step in which its socket opens, and
\* never before or after: a session whose socket never opened, or that was stopped or
\* timed out before it opened, has sent nothing, and one whose socket opened has sent
\* exactly its request, unless the send itself threw: then it has sent nothing and
\* the failure was the first error given to its error callback. The request of an
\* accepted start carries the payload's prompt or messages and no other, every other
\* key of the stored parameter document with its stored value, and kv_cache_options
C34_OneRequestOnOpen ==
  /\ [](\A s \in Sessions :
          /\ Len(managers[s].sent) <= 1
          /\ ~managers[s].established => managers[s].sent = << >>
          /\ managers[s].established
               => \/ managers[s].sent = << managers[s].request >>
                  \/ /\ managers[s].sent = << >>
                     /\ managers[s].onStreamError # << >>
                     /\ managers[s].onStreamError[1] = StreamError(ErrSend))
  /\ [](\A payload \in Payloads :
          ~ENABLED (/\ startGenerationStream(payload, FALSE)
                    /\ Len(managers') = Len(managers) + 1
                    /\ LET request == managers'[Len(managers')].request
                       IN  \/ \E k \in DOMAIN payload :
                                k \notin DOMAIN request \/ request[k] # payload[k]
                           \/ DOMAIN request \cap {"prompt", "messages"} # DOMAIN payload
                           \/ \E k \in DOMAIN generationParams \ {"prompt", "messages"} :
                                k \notin DOMAIN request \/ request[k] # generationParams[k]
                           \/ "kv_cache_options" \notin DOMAIN request))
  /\ [][\A s \in Sessions :
          managers'[s].sent # managers[s].sent
            => /\ ~managers[s].established
               /\ managers'[s].established
               /\ managers'[s].readyState = OPEN]_vars

\* the socket of one session opened but its send threw: it sent nothing and reported
\* the failure; the next one opened and sent its request with the caller's prompt,
\* although the stored parameter document holds a prompt of its own
C34_Witness ==
  /\ Len(managers) = 2
  /\ managers[1].established /\ managers[1].sent = << >>
  /\ managers[1].onStreamError # << >>
  /\ managers[1].onStreamError[1] = StreamError(ErrSend)
  /\ managers[2].established
  /\ managers[2].sent = << managers[2].request >>
  /\ "prompt" \in DOMAIN generationParams
  /\ "prompt" \in DOMAIN managers[2].request
  /\ managers[2].request.prompt = PromptPayload.prompt
  /\ generationParams.prompt # PromptPayload.prompt


\* C35: no session has both its completion callback and its error callback invoked
C35_SingleTerminalOutcome ==
  \A s \in Sessions :
    ~(managers[s].onStreamComplete > 0 /\ managers[s].onStreamError # << >>)


\* C36: a performance socket that opens resets its manager's attempt counter to zero,
\* so that a manager with an open socket has made no attempt, and the reconnect
\* scheduled when an open socket closes is the first of a new run, after the base
\* delay of 3 time units
C36_OpenResetsAttempts ==
  /\ [](\A m \in PerfManagers :
          performanceManagers[m].readyState = OPEN
            => performanceManagers[m].reconnectAttempts = 0)
  /\ [][\A m \in PerfManagers :
          /\ performanceManagers[m].readyState = CONNECTING
               /\ performanceManagers'[m].readyState = OPEN
               => performanceManagers'[m].reconnectAttempts = 0
          /\ performanceManagers[m].readyState = OPEN
               /\ performanceManagers'[m].timerPending
               => /\ performanceManagers'[m].reconnectAttempts = 1
                  /\ performanceManagers'[m].reconnectTimeoutId = 3]_vars

\* a socket opened after at least two failures in a row (the last timer was set for 6
\* time units or more), the counter is back at zero, and the closure of this socket
\* schedules a reconnect after 3 time units
C36_Witness ==
  \E m \in PerfManagers :
    /\ performanceManagers[m].readyState = OPEN
    /\ performanceManagers[m].reconnectTimeoutId >= 6
    /\ performanceManagers[m].reconnectAttempts = 0
    /\ ENABLED (/\ perf_onclose(m)
                /\ performanceManagers'[m].timerPending
                /\ performanceManagers'[m].reconnectTimeoutId = 3)


\* C37: the step in which a load, unload or list request settles, with success, a
\* negative result or a thrown error, leaves isModelLoading false; whenever no such
\* request is outstanding the flag is false and a loadModel call is admitted; and a
\* flag that is set is eventually cleared
C37_FlagClearedOnEveryPath ==
  /\ [][pending'.load < pending.load \/ Len(pending'.unload) < Len(pending.unload)
          \/ pending'.list < pending.list
          => ~isModelLoading']_vars
  /\ [](pending.load + Len(pending.unload) + pending.list = 0
          => /\ ~isModelLoading
             /\ ENABLED (loadModel /\ isModelLoading' /\ pending'.load = 1))
  /\ (isModelLoading ~> ~isModelLoading)

\* a load ended with a thrown error, nothing is outstanding, the flag is clear, and
\* the next load is admitted
C37_Witness ==
  /\ lastError = ErrLoadThrown
  /\ pending = NoPending
  /\ ~isModelLoading
  /\ ENABLED (loadModel /\ isModelLoading' /\ pending'.load = 1)


\* C38: a status refresh or load that settles with a descriptor of the current model's
\* id and adapter_path stores that descriptor and changes nothing of the generation
\* session: it is not stopped, and the accumulated output and the last chunk stay
C38_SameModelRefreshKeepsSession ==
  /\ [][/\ (pending'.status < pending.status \/ pending'.load < pending.load)
         /\ currentModel # None /\ currentModel' # None
         /\ currentModel'[1].id = currentModel[1].id
         /\ currentModel'[1].adapter_path = currentModel[1].adapter_path
         => /\ isGenerating' = isGenerating
            /\ streamManager' = streamManager
            /\ managers' = managers
            /\ currentOutputStream' = currentOutputStream
            /\ lastChunk' = lastChunk]_vars
  /\ [](\A result \in CacheModelStatuses :
          /\ currentModel # None /\ result.modelInfo # None
          /\ result.modelInfo[1].id = currentModel[1].id
          /\ result.modelInfo[1].adapter_path = currentModel[1].adapter_path
          => ~ENABLED (/\ fetchCurrentModelStatusSettles(result)
                       /\ currentModel' # result.modelInfo))

\* a session is running with output accumulated, and a status refresh that returns
\* another descriptor of the same model replaces the stored one and leaves the session
C38_Witness ==
  /\ isGenerating
  /\ streamManager # NoManager
  /\ currentOutputStream # << >>
  /\ currentModel = Some(ModelA)
  /\ ENABLED (/\ fetchCurrentModelStatusSettles([thrown |-> FALSE, modelInfo |-> Some(ModelANotLoaded)])
              /\ currentModel' = Some(ModelANotLoaded)
              /\ isGenerating'
              /\ streamManager' = streamManager
              /\ currentOutputStream' = currentOutputStream
              /\ lastChunk' = lastChunk)


\* C39: in every state isGenerating is true exactly when the store holds a stream
\* manager, and the manager it holds belongs to a session that has not completed,
\* reported an error or been stopped; a step in which a session completes, reports an
\* error or is stopped (by the user, by "New Chat", by a connect timeout or by a change
\* of the current model) leaves isGenerating false and the store's reference null
C39_GeneratingIffManagerHeld ==
  /\ [](/\ isGenerating <=> streamManager # NoManager
        /\ streamManager # NoManager
             => /\ streamManager \in Sessions
                /\ managers[streamManager].onStreamComplete = 0
                /\ managers[streamManager].onStreamError = << >>
                /\ ~managers[streamManager].explicitlyClosed)
  /\ [][(\E s \in 1 .. Len(managers') :
           LET before == IF s \in Sessions THEN managers[s] ELSE NewManager(EmptyObject, FALSE)
           IN  \/ managers'[s].onStreamComplete > before.onStreamComplete
               \/ Len(managers'[s].onStreamError) > Len(before.onStreamError)
               \/ managers'[s].explicitlyClosed /\ ~before.explicitlyClosed)
          => ~isGenerating' /\ streamManager' = NoManager]_vars

\* a first session that had forwarded text was stopped by a change of the current
\* model, and a second one, accepted after it, is the one the store holds
C39_Witness ==
  /\ Len(managers) = 2
  /\ managers[1].onTokenUpdate # << >>
  /\ managers[1].closeCalls = << <<NormalClosure, ReasonModelChanged>> >>
  /\ managers[1].onStreamComplete = 0
  /\ managers[1].onStreamError = << >>
  /\ currentModel = Some(ModelB)
  /\ isGenerating
  /\ streamManager = 2
  /\ managers[2].readyState = OPEN

\* C40: once every outstanding request has settled, the current model record is the
\* model the backend holds, whatever the order in which the answers of a load and of
\* the status refreshes issued around it were delivered
C40_RecordMatchesBackendWhenSettled ==
  pending.status = 0 /\ pending.load = 0 => currentModel = pending.backendModel

====
